---- MODULE Spec2Model ----
(***************************************************************************)
(* Model of the research memory subsystem of SkillMiner:                   *)
(*   - the training loop's checkpoint policy (train_logs_lstm.py, main)    *)
(*   - TokenLimitController.truncate (memory_features.py, stm.py)          *)
(*   - the Sum+Tok+NER and Full-Memory variants' build_memory_context      *)
(*   - LocalSemanticMemory add / search                                    *)
(*   - the character tokenizer encode_text / decode_ids                    *)
(*   - the logs evaluation harness evaluate_level_prediction               *)
(* Python strings are TLA+ strings; s[i] is SubSeq(s, i+1, i+1).          *)
(* Only the heuristic (no-tokenizer) path of the token controller is      *)
(* modelled: self.tokenizer stays None.                                    *)
(***************************************************************************)
EXTENDS Integers, Sequences, FiniteSets, TLC

VARIABLES
  op,             \* name of the last operation performed ("init" at start)
  \* ---- train_logs_lstm.main ----
  args_epochs,    \* args.epochs
  epoch,          \* loop variable of "for epoch in range(1, args.epochs + 1)", 0 before the loop
  best_val_acc,   \* best_val_acc, as a number of correct validation rows out of ValSize
  val_acc,        \* val_acc of the last finished epoch
  ckpt,           \* epoch whose state_dict is in <variant>_best.pt, 0 when the file does not exist
  accs,           \* the validation accuracies a_0, a_1, ... seen so far
  saved,          \* TRUE iff the last finished epoch called torch.save
  \* ---- TokenLimitController.truncate ----
  t_ctrl,         \* which TokenLimitController: "research" (memory_features.py) or "stm" (stm.py)
  t_text,         \* argument text
  t_max,          \* argument max_tokens
  t_out,          \* returned string ("?" before the call)
  \* ---- encode_text / decode_ids ----
  e_text,         \* argument of encode_text
  e_ids,          \* the ids encode_text returned (<<>> before the call)
  e_dec,          \* the string decode_ids returned ("?" before the call)
  \* ---- eval_logs_memory.evaluate_level_prediction ----
  logs,             \* argument logs: rows [user_id, level, message], level already int(row["level"])
  history_size,     \* argument history_size
  allow_off_by_one, \* argument allow_off_by_one
  ev_pc,            \* "loop" while rows remain or the return is pending, "done" after the return
  ev_i,             \* number of rows the loop has processed
  total,            \* total
  correct,          \* correct
  history_messages, \* history_messages
  ev_history,       \* history handed to predict_fn for the last processed row
  ev_question,      \* question handed to predict_fn for the last processed row
  ev_pred,          \* pred_text returned by predict_fn for the last processed row
  ev_acc,           \* returned accuracy as <<numerator, denominator>>, <<>> before the return
  \* ---- memory_features.LocalSemanticMemory ----
  hashvec,          \* the process's hash-seeded embedding of every non-blank text
  entries,          \* LocalSemanticMemory.entries: records [text, embedding]
  m_query,          \* argument query of the last search
  m_top_k,          \* argument top_k of the last search
  m_result,         \* list of texts the last search returned
  \* ---- SumTokNerLSTM / FullMemoryLSTM.build_memory_context ----
  variant,          \* "sum_tok_ner" or "full_memory"
  summarizer_ok,    \* SummarizationLayer._summarizer is not None
  nlp_ok,           \* NERExtractor.nlp is not None
  stm_max_tokens,   \* STM_MAX_TOKENS, the budget of tok_feat
  c_history,        \* argument history of the last build_memory_context
  c_current,        \* argument current of the last build_memory_context
  c_raised,         \* TRUE iff the last build_memory_context raised
  c_ner_raise,      \* TRUE iff self.nlp(text) raises when that call reaches it
  c_summary,        \* the summary after tok_feat.truncate in the last call
  c_context,        \* the string the last build_memory_context returned
  \* ---- eval_synthetic_qa.evaluate_model / eval_task_memory.evaluate_task_model ----
  q_kind,           \* which harness runs: "qa" or "task" ("none" when neither does)
  q_data,           \* argument data: the rows of the CSV, in file order
  q_history_size,   \* argument history_size
  q_sim_threshold,  \* argument sim_threshold, as <<numerator, denominator>>
  q_pc,             \* "loop" while rows remain or the return is pending, "done" after the return
  q_i,              \* number of rows the loop has processed
  q_total,          \* total
  q_correct,        \* correct
  q_history_texts,  \* history_texts (QA) / history_messages (task)
  q_history,        \* history handed to predict_fn for the last processed row
  q_question,       \* question handed to predict_fn for the last processed row
  q_pred,           \* the string predict_fn returned for the last processed row
  q_acc,            \* returned accuracy as <<numerator, denominator>>, <<>> before the return
  \* ---- init_base_lstm and the predict functions of the three harnesses ----
  h_harness,        \* the module: "logs", "qa" or "task"
  base_ok,          \* BaseMemoryLSTM is not None (its import succeeded)
  variants_ok,      \* the four variant classes are not None (their imports succeeded)
  ckpt_files,       \* per variant, the file <variant>_best.pt: "missing", "valid" or "malformed"
  instances,        \* per variant, the module-level instance: "none", "fresh" or "loaded" weights
  device,           \* _device is not None
  p_variant,        \* the variant whose predict function was called last
  p_path,           \* what that call did: "init_raised", "stub" or "lstm" ("none" before a call)
  p_weights,        \* the weights the forward pass of that call ran on ("none" without one)
  p_raised,         \* TRUE iff that call raised
  p_text,           \* the text that call returned ("" when it raised)
  \* ---- train_logs_lstm.LogsLevelDataset ----
  cache_exists,     \* os.path.exists(cache_path) for <cache_dir>/<model_type>_inputs.json
  cache_json,       \* the JSON array in that file (<<>> while it does not exist)
  ds_built,         \* TRUE once a run has constructed its dataset
  ds_rows,          \* self.rows of the current run's dataset
  ds_history_size,  \* self.history_size
  ds_histories,     \* self._histories
  ds_cached,        \* self._cached_input_texts
  ds_from_cache,    \* TRUE iff the constructor took the list from the cache file
  gi_idx,           \* argument idx of the last dataset[idx]
  gi_raised,        \* TRUE iff the last dataset[idx] raised
  gi_cached_text,   \* cached_text of the last dataset[idx]: None or the one-element tuple
  gi_history,       \* history of the last dataset[idx] (<<>> before a call)
  gi_question,      \* question of the last dataset[idx] ("" before a call)
  gi_digit,         \* digit of the last dataset[idx] (0 before a call)
  \* ---- SummarizationLayer.summarize (memory_features.py and stm.py) ----
  s_layer,          \* which SummarizationLayer: "research" (memory_features.py) or "stm" (stm.py)
  s_available,      \* the layer's summarizer is not None
  s_text,           \* argument text of the last summarize
  s_max_length,     \* argument max_length of the last summarize (stm.py): None or <<n>>
  s_hf,             \* what the pipeline did in that call ([kind |-> "none"]: it was not called)
  s_raised,         \* TRUE iff that call raised
  s_out,            \* the string that call returned ("?" before a call)
  \* ---- stm.ShortTermMemory ----
  stm_max_messages, \* self.max_messages
  stm_budget,       \* self.max_tokens, also the max_tokens of self.token_controller
  stm_sum_ok,       \* self.summarizer.summarizer is not None
  stm_tok_ok,       \* AutoTokenizer.from_pretrained succeeds in _ensure_tokenizer
  recent_messages,  \* self.recent_messages: records [role, content]
  stm_summary,      \* self.summary
  stm_got,          \* the string the last get_summary() returned ("?" when another call came last)
  \* ---- lstm_memory.LSTMCell ----
  cell,             \* the cell's parameters W_ii .. b_o
  l_input,          \* the caller's input_tensor, one row per batch element
  l_h,              \* the caller's hidden[0]
  l_c,              \* the caller's hidden[1]
  l_out,            \* the pair (h_t, c_t) forward returned (<<>> before the call)
  \* ---- train_logs_lstm.train_one_epoch / evaluate_level_accuracy: one batch ----
  b_fn,             \* the function that handled the batch ("none" before a batch)
  b_texts,          \* input_texts of the batch
  b_seq_lens,       \* seq_lens
  b_batch_ids,      \* batch_ids, one row per element
  b_last,           \* last_logits: per element, which vector of logits was taken
  \* ---- lstm_memory.LSTMEncoder / LSTMDecoder / MemoryAugmentedLSTM ----
  sq_layers,        \* num_layers of the encoder and the decoder
  sq_drop,          \* self.dropout is nn.Dropout in training mode (else it is the identity)
  sq_fn,            \* the forward that was called ("none" before a call)
  sq_args,          \* the arguments of that call
  sq_h0,            \* contents of the caller's tensor h before the call, one entry per layer
  sq_c0,            \* contents of the caller's tensor c before the call
  sq_h,             \* contents of the caller's tensor h now
  sq_c,             \* contents of the caller's tensor c now
  sq_steps,         \* the decoder steps of the call, in the order they ran
  sq_enc_final,     \* contents of (h, c) when the encoder returned, inside MemoryAugmentedLSTM.forward
  sq_ret,           \* the value the call returned, tensors by their contents at return
  sq_raised,        \* the call raised
  \* ---- a record of the add_message calls made on the ShortTermMemory ----
  stm_added,        \* the non-blank messages added since the last clear, in arrival order
  stm_content,      \* content of the last add_message call
  stm_before        \* recent_messages and summary before the last add_message call

trainVars == <<args_epochs, epoch, best_val_acc, val_acc, ckpt, accs, saved>>
truncVars == <<t_ctrl, t_text, t_max, t_out>>
encVars == <<e_text, e_ids, e_dec>>
memVars == <<hashvec, entries, m_query, m_top_k, m_result>>
ctxCfg == <<variant, summarizer_ok, nlp_ok, stm_max_tokens>>
ctxOut == <<c_history, c_current, c_raised, c_ner_raise, c_summary, c_context>>
ctxVars == <<ctxCfg, ctxOut>>
evalVars == <<logs, history_size, allow_off_by_one, ev_pc, ev_i, total, correct,
              history_messages, ev_history, ev_question, ev_pred, ev_acc>>
predictVars == <<h_harness, base_ok, variants_ok, ckpt_files, instances, device,
                 p_variant, p_path, p_weights, p_raised, p_text>>
datasetVars == <<cache_exists, cache_json, ds_built, ds_rows, ds_history_size, ds_histories,
                 ds_cached, ds_from_cache, gi_idx, gi_raised, gi_cached_text, gi_history,
                 gi_question, gi_digit>>
sumVars == <<s_layer, s_available, s_text, s_max_length, s_hf, s_raised, s_out>>
stmVars == <<stm_max_messages, stm_budget, stm_sum_ok, stm_tok_ok, recent_messages,
             stm_summary, stm_got>>
cellVars == <<cell, l_input, l_h, l_c, l_out>>
batchVars == <<b_fn, b_texts, b_seq_lens, b_batch_ids, b_last>>
seqVars == <<sq_layers, sq_drop, sq_fn, sq_args, sq_h0, sq_c0, sq_h, sq_c, sq_steps, sq_enc_final, sq_ret, sq_raised>>
stmlogVars == <<stm_added, stm_content, stm_before>>
replayVars == <<q_kind, q_data, q_history_size, q_sim_threshold, q_pc, q_i, q_total, q_correct,
                q_history_texts, q_history, q_question, q_pred, q_acc>>

----------------------------------------------------------------------------
(* Bounds *)

MaxEpochs == 4      \* largest args.epochs explored
ValSize == 3        \* number of rows of the validation split
MaxTokens == 2      \* largest token budget explored
MaxChunks == 3      \* texts are concatenations of at most MaxChunks pieces
MaxRows == 3        \* largest number of log rows
MaxHistSize == 2    \* largest history_size explored
MaxEntries == 3     \* largest number of entries of the semantic store
MaxTopK == 3        \* largest top_k explored
MaxHist == 2        \* longest history handed to ingest_history / build_memory_context
MaxMessages == 2    \* largest max_messages of a ShortTermMemory
MaxBatch == 3       \* largest number of elements of a batch
MaxAdded == 3       \* largest number of non-blank messages added to a ShortTermMemory
MaxSteps == 3       \* longest input sequence and largest max_length of a decoder call

----------------------------------------------------------------------------
(* Generic helpers on integers and Python strings *)

Max(S) == CHOOSE m \in S : \A x \in S : x <= m

Min2(a, b) == IF a <= b THEN a ELSE b

Max2(a, b) == IF a >= b THEN a ELSE b

\* s[i] for a 0-based index i
CharAt(s, i) == SubSeq(s, i + 1, i + 1)

\* s[:n] for n >= 0
Prefix(s, n) == SubSeq(s, 1, Min2(n, Len(s)))

\* s.rfind(c) for a one-character c: highest 0-based index, -1 when absent
rfind(s, c) ==
  LET I == {i \in 0..(Len(s) - 1) : CharAt(s, i) = c}
  IN IF I = {} THEN -1 ELSE Max(I)

\* the texts made of at most n pieces of the set Pieces
RECURSIVE TextsOf(_, _)
TextsOf(Pieces, n) ==
  IF n = 0 THEN {""}
  ELSE LET P == TextsOf(Pieces, n - 1)
       IN P \cup {p \o c : p \in P, c \in Pieces}

----------------------------------------------------------------------------
(* train_logs_lstm.py: main, the epoch loop and the checkpoint policy *)

\* the validation accuracies evaluate_level_accuracy can return: correct / ValSize
ValAccs == 0..ValSize

ShouldSave_strict(acc, best) == acc > best

ShouldSave_always(acc, best) == TRUE

\* "if val_acc >= best_val_acc:"
ShouldSave(acc, best) == acc >= best

TrainInit ==
  /\ args_epochs \in 0..MaxEpochs
  /\ epoch = 0
  /\ best_val_acc = 0
  /\ val_acc = 0
  /\ ckpt = 0
  /\ accs = <<>>
  /\ saved = FALSE

TrainIdle ==
  /\ args_epochs = 0
  /\ epoch = 0
  /\ best_val_acc = 0
  /\ val_acc = 0
  /\ ckpt = 0
  /\ accs = <<>>
  /\ saved = FALSE

\* one iteration of the epoch loop: train_one_epoch, evaluate_level_accuracy
\* (returning a), then the checkpoint decision
TrainEpoch(a) ==
  /\ epoch < args_epochs
  /\ epoch' = epoch + 1
  /\ val_acc' = a
  /\ accs' = Append(accs, a)
  /\ IF ShouldSave(a, best_val_acc)
       THEN /\ best_val_acc' = a
            /\ ckpt' = epoch + 1
            /\ saved' = TRUE
       ELSE /\ saved' = FALSE
            /\ UNCHANGED <<best_val_acc, ckpt>>
  /\ op' = "train_epoch"
  /\ UNCHANGED args_epochs

----------------------------------------------------------------------------
(* TokenLimitController: _estimate_tokens and truncate, heuristic path *)

\* "return len(text) // 4"
estimate_tokens(text) == IF text = "" THEN 0 ELSE Len(text) \div 4

truncate_loose(text, max_tokens) ==
  IF text = "" THEN ""
  ELSE IF Len(text) \div 4 <= max_tokens THEN text
  ELSE LET max_chars == (max_tokens + 1) * 4
           truncated == Prefix(text, max_chars)
           cutoff == Max2(rfind(truncated, "."), rfind(truncated, "\n"))
       IN IF 10 * cutoff > 8 * max_chars
            THEN Prefix(truncated, cutoff + 1)
            ELSE truncated \o "..."

\* memory_features.TokenLimitController.truncate with self.tokenizer None
truncate(text, max_tokens) ==
  IF text = "" THEN ""
  ELSE IF Len(text) \div 4 <= max_tokens THEN text
  ELSE LET max_chars == max_tokens * 4
           truncated == Prefix(text, max_chars)
           last_period == rfind(truncated, ".")
           last_newline == rfind(truncated, "\n")
           cutoff == Max2(last_period, last_newline)
       IN IF 10 * cutoff > 8 * max_chars      \* cutoff > max_chars * 0.8
            THEN Prefix(truncated, cutoff + 1)
            ELSE truncated \o "..."

\* stm.TokenLimitController.truncate with self.tokenizer None
stm_truncate(text, max_tokens) ==
  IF text = "" THEN ""
  ELSE LET estimated_tokens == Len(text) \div 4
       IN IF estimated_tokens <= max_tokens THEN text
          ELSE LET max_chars == max_tokens * 4
                   truncated == Prefix(text, max_chars)
                   last_period == rfind(truncated, ".")
                   last_newline == rfind(truncated, "\n")
                   cutoff == Max2(last_period, last_newline)
               IN IF 10 * cutoff > 8 * max_chars
                    THEN Prefix(truncated, cutoff + 1)
                    ELSE truncated \o "..."

\* pieces the argument texts of truncate are made of
TruncPieces == {"a", ".", "\n", "aaaa", "aaa."}

TruncTexts == TextsOf(TruncPieces, MaxChunks)

TruncInit ==
  /\ t_ctrl \in {"research", "stm"}
  /\ t_text \in TruncTexts
  /\ t_max \in 0..MaxTokens
  /\ t_out = "?"

TruncIdle ==
  /\ t_ctrl = "research"
  /\ t_text = ""
  /\ t_max = 0
  /\ t_out = "?"

\* a call controller.truncate(t_text, t_max)
Truncate ==
  /\ op = "init"
  /\ t_out' = IF t_ctrl = "research" THEN truncate(t_text, t_max)
                                     ELSE stm_truncate(t_text, t_max)
  /\ op' = "truncate"
  /\ UNCHANGED <<t_ctrl, t_text, t_max>>

----------------------------------------------------------------------------
(* eval_logs_memory.py / train_logs_lstm.py: the character tokenizer *)

\* chr(32) .. chr(95), the first 64 characters of _ALL_CHARS
CHARS_32_95 == " !\"#$%&'()*+,-./0123456789:;<=>?@ABCDEFGHIJKLMNOPQRSTUVWXYZ[\\]^_"

\* chr(97) .. chr(126), the last 30 characters of _ALL_CHARS; chr(96), the
\* backquote, cannot be written in a TLA+ string and occurs in no text of the model
CHARS_97_126 == "abcdefghijklmnopqrstuvwxyz{|}~"

\* len(_ITOS) = 1 + len(_ALL_CHARS); _ITOS[0] is the pad symbol
VOCAB_SIZE == 96

MAX_SEQ_LEN == 256

\* 0-based position of the one-character string ch in s, -1 when absent
find(s, ch) ==
  LET I == {i \in 0..(Len(s) - 1) : CharAt(s, i) = ch}
  IN IF I = {} THEN -1 ELSE CHOOSE i \in I : \A j \in I : i <= j

\* the code of every printable ASCII character but chr(96)
CharCode ==
  [ch \in {CharAt(CHARS_32_95, i) : i \in 0..63} \cup {CharAt(CHARS_97_126, i) : i \in 0..29} |->
     IF find(CHARS_32_95, ch) >= 0 THEN 32 + find(CHARS_32_95, ch)
                                   ELSE 97 + find(CHARS_97_126, ch)]

\* ord(ch) for a printable ASCII character, -1 for any other character
ord(ch) == IF ch \in DOMAIN CharCode THEN CharCode[ch] ELSE -1

\* chr(c) for 32 <= c <= 126, c # 96
chr(c) == IF c < 96 THEN CharAt(CHARS_32_95, c - 32) ELSE CharAt(CHARS_97_126, c - 97)

STOI_nopad(ch) == IF ord(ch) >= 32 THEN ord(ch) - 32 ELSE ord(" ") - 32

\* _STOI.get(ch, _STOI[" "]): _ITOS = [pad] + _ALL_CHARS, so chr(c) has id c - 31
STOI(ch) == IF ord(ch) >= 32 THEN ord(ch) - 31 ELSE ord(" ") - 31

\* _ITOS[idx] for 1 <= idx < len(_ITOS)
ITOS(idx) == chr(idx + 31)

\* encode_text: the ids of text[:_MAX_SEQ_LEN], [_STOI[" "]] for the empty text
encode_text(text) ==
  LET t == Prefix(text, MAX_SEQ_LEN)
      ids == [i \in 1..Len(t) |-> STOI(CharAt(t, i - 1))]
  IN IF ids = <<>> THEN <<STOI(" ")>> ELSE ids

\* the text one id contributes to decode_ids: "if 0 <= idx < len(_ITOS)" and
\* "if ch != _PAD_CHAR"
decode_id(idx) == IF 0 <= idx /\ idx < VOCAB_SIZE /\ idx # 0 THEN ITOS(idx) ELSE ""

\* decode_ids: "".join of the characters of the ids, in order (the loop over ids
\* is folded by halves to keep the evaluation depth logarithmic)
RECURSIVE decode_ids(_)
decode_ids(ids) ==
  IF ids = <<>> THEN ""
  ELSE IF Len(ids) = 1 THEN decode_id(ids[1])
  ELSE LET h == Len(ids) \div 2
       IN decode_ids(SubSeq(ids, 1, h)) \o decode_ids(SubSeq(ids, h + 1, Len(ids)))

Dbl(s) == s \o s

\* a text of 128 printable characters
Long128 == Dbl(Dbl(Dbl(Dbl(Dbl(Dbl("ab"))))))

\* pieces the argument texts of encode_text are made of
EncPieces == {" ", "7", "~", "\n", "\t", Long128}

EncTexts == TextsOf(EncPieces, MaxChunks)

\* every character of text is one of chr(32) .. chr(126)
IsPrintable(text) == \A i \in 0..(Len(text) - 1) : ord(CharAt(text, i)) >= 32

EncInit ==
  /\ e_text \in EncTexts
  /\ e_ids = <<>>
  /\ e_dec = "?"

EncIdle ==
  /\ e_text = ""
  /\ e_ids = <<>>
  /\ e_dec = "?"

\* ids = encode_text(e_text)
Encode ==
  /\ op = "init"
  /\ e_ids' = encode_text(e_text)
  /\ op' = "encode"
  /\ UNCHANGED <<e_text, e_dec>>

\* decode_ids(ids)
Decode ==
  /\ op = "encode"
  /\ e_dec' = decode_ids(e_ids)
  /\ op' = "decode"
  /\ UNCHANGED <<e_text, e_ids>>

----------------------------------------------------------------------------
(* eval_logs_memory.py: extract_first_int and evaluate_level_prediction *)

\* Optional[int]: None, or the one-element tuple of the integer
None == <<>>

Some(n) == <<n>>

Digits == "0123456789"

\* \d on ASCII text
IsDigit(ch) == find(Digits, ch) >= 0

\* int(s) for a non-empty string of ASCII digits
RECURSIVE ParseDigits(_)
ParseDigits(s) ==
  IF s = "" THEN 0
  ELSE 10 * ParseDigits(SubSeq(s, 1, Len(s) - 1)) + find(Digits, CharAt(s, Len(s) - 1))

\* 0-based end (exclusive) of the run of digits that starts at position i
RECURSIVE DigitsEnd(_, _)
DigitsEnd(s, i) == IF i < Len(s) /\ IsDigit(CharAt(s, i)) THEN DigitsEnd(s, i + 1) ELSE i

\* the positions where LEVEL_INT_REGEX = (-?\d+) matches
MatchStarts(s) ==
  {i \in 0..(Len(s) - 1) :
     \/ IsDigit(CharAt(s, i))
     \/ CharAt(s, i) = "-" /\ i + 1 < Len(s) /\ IsDigit(CharAt(s, i + 1))}

\* extract_first_int: int() of the leftmost match of (-?\d+), None without a match
extract_first_int(text) ==
  IF text = "" THEN None
  ELSE LET M == MatchStarts(text)
       IN IF M = {} THEN None
          ELSE LET m == CHOOSE i \in M : \A j \in M : i <= j
                   neg == CharAt(text, m) = "-"
                   d == IF neg THEN m + 1 ELSE m
                   n == ParseDigits(SubSeq(text, d + 1, DigitsEnd(text, d)))
               IN Some(IF neg THEN 0 - n ELSE n)

Abs(n) == IF n < 0 THEN 0 - n ELSE n

is_correct_lenient(pred_level, level_true, off_by_one) ==
  IF pred_level # None
    THEN Abs(pred_level[1] - level_true) <= 1
    ELSE FALSE

is_correct_none_counts(pred_level, level_true, off_by_one) ==
  IF pred_level # None
    THEN IF ~off_by_one THEN pred_level[1] = level_true
                        ELSE Abs(pred_level[1] - level_true) <= 1
    ELSE TRUE

\* the decision "correct += 1" of evaluate_level_prediction
is_correct(pred_level, level_true, off_by_one) ==
  IF pred_level # None
    THEN IF ~off_by_one THEN pred_level[1] = level_true
                        ELSE Abs(pred_level[1] - level_true) <= 1
    ELSE FALSE

\* lst[-n:] for n >= 0 (Python: lst[-0:] is the whole list)
LastN(lst, n) ==
  IF n = 0 \/ n >= Len(lst) THEN lst ELSE SubSeq(lst, Len(lst) - n + 1, Len(lst))

\* f"After this event, what is the current level of user {user_id}?"
Question(user_id) == "After this event, what is the current level of user " \o user_id \o "?"

UserIds == {"u1"}

Levels == {3, 12}

Messages == {"u1 gained 10 exp.", "u1 reached level 3."}

LogRows == [user_id : UserIds, level : Levels, message : Messages]

\* the strings predict_fn may return
PredTexts == {"", "no idea", "The current level is 3.", "12", "level -3?", "x2-13", "4."}

SeqsUpTo(S, n) == UNION {[1..k -> S] : k \in 0..n}

EvalInit ==
  /\ logs \in SeqsUpTo(LogRows, MaxRows)
  /\ history_size \in 0..MaxHistSize
  /\ allow_off_by_one \in BOOLEAN
  /\ ev_pc = "loop"
  /\ ev_i = 0
  /\ total = 0
  /\ correct = 0
  /\ history_messages = <<>>
  /\ ev_history = <<>>
  /\ ev_question = ""
  /\ ev_pred = ""
  /\ ev_acc = <<>>

EvalIdle ==
  /\ logs = <<>>
  /\ history_size = 0
  /\ allow_off_by_one = FALSE
  /\ ev_pc = "done"
  /\ ev_i = 0
  /\ total = 0
  /\ correct = 0
  /\ history_messages = <<>>
  /\ ev_history = <<>>
  /\ ev_question = ""
  /\ ev_pred = ""
  /\ ev_acc = <<>>

\* the loop body with the append moved in front of the slice
EvalRow_append_first(pred_text) ==
  /\ ev_pc = "loop"
  /\ ev_i < Len(logs)
  /\ LET row == logs[ev_i + 1]
         level_true == row.level
         history == LastN(Append(history_messages, row.message), history_size)
         question == Question(row.user_id)
         pred_level == extract_first_int(pred_text)
     IN /\ ev_history' = history
        /\ ev_question' = question
        /\ ev_pred' = pred_text
        /\ correct' = IF is_correct(pred_level, level_true, allow_off_by_one)
                        THEN correct + 1 ELSE correct
        /\ total' = total + 1
        /\ history_messages' = Append(history_messages, row.message)
  /\ ev_i' = ev_i + 1
  /\ op' = "eval_row"
  /\ UNCHANGED <<logs, history_size, allow_off_by_one, ev_pc, ev_acc>>

\* one iteration of "for row in logs", predict_fn returning pred_text
EvalRow(pred_text) ==
  /\ ev_pc = "loop"
  /\ ev_i < Len(logs)
  /\ LET row == logs[ev_i + 1]
         level_true == row.level
         history == LastN(history_messages, history_size)
         question == Question(row.user_id)
         pred_level == extract_first_int(pred_text)
     IN /\ ev_history' = history
        /\ ev_question' = question
        /\ ev_pred' = pred_text
        /\ correct' = IF is_correct(pred_level, level_true, allow_off_by_one)
                        THEN correct + 1 ELSE correct
        /\ total' = total + 1
        /\ history_messages' = Append(history_messages, row.message)
  /\ ev_i' = ev_i + 1
  /\ op' = "eval_row"
  /\ UNCHANGED <<logs, history_size, allow_off_by_one, ev_pc, ev_acc>>

\* after the loop: "acc = correct / total if total else 0.0" and the return
EvalReturn ==
  /\ ev_pc = "loop"
  /\ ev_i = Len(logs)
  /\ ev_acc' = IF total # 0 THEN <<correct, total>> ELSE <<0, 1>>
  /\ ev_pc' = "done"
  /\ op' = "eval_return"
  /\ UNCHANGED <<logs, history_size, allow_off_by_one, ev_i, total, correct,
                 history_messages, ev_history, ev_question, ev_pred>>

----------------------------------------------------------------------------
(* memory_features.py: SemanticEmbedder and LocalSemanticMemory *)

\* characters str.strip() removes
Whitespace == {" ", "\n", "\t", "\r", "\f"}

\* "not text or not text.strip()"
IsBlank(text) == \A i \in 0..(Len(text) - 1) : CharAt(text, i) \in Whitespace

\* The embeddings: get_embedding returns vec / norm, a vector of unit length.
\* Here the vectors have two integer coordinates and the common length 5.
UnitVecs == {<<5, 0>>, <<3, 4>>, <<-4, 3>>}

Dot(u, v) == u[1] * v[1] + u[2] * v[2]

\* np.linalg.norm(v) ** 2
NormSq(v) == Dot(v, v)

\* SemanticEmbedder.get_embedding: None for a blank text, else the vector the
\* text's hash seeds
get_embedding(text) == IF IsBlank(text) THEN None ELSE Some(hashvec[text])

\* np.dot(q, v) / (qn * vn), times the common squared length of the vectors
Sim(q, v) == Dot(q, v)

\* LocalSemanticMemory.add: the entries after add(text)
add(ents, text) ==
  LET emb == get_embedding(text)
  IN IF emb = None THEN ents
     ELSE Append(ents, [text |-> text, embedding |-> emb[1]])

\* FullMemoryLSTM.ingest_history: add(h) for every h of history, in order
RECURSIVE ingest_history(_, _)
ingest_history(ents, history) ==
  IF history = <<>> THEN ents
  ELSE ingest_history(add(ents, Head(history)), Tail(history))

\* list.sort(key=lambda x: x[0], reverse=True) by insertion: x goes behind every
\* element whose key is at least its own (the sort is stable)
RECURSIVE InsertDesc(_, _)
InsertDesc(sorted, x) ==
  IF sorted = <<>> THEN <<x>>
  ELSE IF Head(sorted)[1] >= x[1]
         THEN <<Head(sorted)>> \o InsertDesc(Tail(sorted), x)
         ELSE <<x>> \o sorted

RECURSIVE SortDesc(_)
SortDesc(scored) ==
  IF scored = <<>> THEN <<>>
  ELSE InsertDesc(SortDesc(SubSeq(scored, 1, Len(scored) - 1)), scored[Len(scored)])

\* the list "scored": (sim, text) of every entry of non-zero norm, in entry order
RECURSIVE Scored(_, _)
Scored(ents, q) ==
  IF ents = <<>> THEN <<>>
  ELSE LET v == Head(ents).embedding
       IN (IF NormSq(v) = 0 THEN <<>> ELSE <<<<Sim(q, v), Head(ents).text>>>>)
            \o Scored(Tail(ents), q)

search_unstable(ents, query, top_k) ==
  LET emb == get_embedding(query)
  IN IF emb = None \/ ents = <<>> THEN <<>>
     ELSE IF NormSq(emb[1]) = 0 THEN <<>>
     ELSE LET rev == [i \in 1..Len(ents) |-> ents[Len(ents) + 1 - i]]
              scored == SortDesc(Scored(rev, emb[1]))
              top == SubSeq(scored, 1, Min2(top_k, Len(scored)))
          IN [i \in 1..Len(top) |-> top[i][2]]

\* LocalSemanticMemory.search for top_k >= 0
search(ents, query, top_k) ==
  LET emb == get_embedding(query)
  IN IF emb = None \/ ents = <<>> THEN <<>>
     ELSE IF NormSq(emb[1]) = 0 THEN <<>>
     ELSE LET scored == SortDesc(Scored(ents, emb[1]))
              top == SubSeq(scored, 1, Min2(top_k, Len(scored)))
          IN [i \in 1..Len(top) |-> top[i][2]]

\* the texts handed to add / ingest_history / search
MemTexts == {"python expert", "loves docker", "containers", "", "  "}

EmbeddedTexts == {t \in MemTexts : ~IsBlank(t)}

MemInit ==
  /\ hashvec \in [EmbeddedTexts -> UnitVecs]
  /\ entries = <<>>
  /\ m_query = ""
  /\ m_top_k = 0
  /\ m_result = <<>>

MemIdle ==
  /\ hashvec = [t \in EmbeddedTexts |-> IF t = "containers" THEN <<5, 0>>
                                         ELSE IF t = "loves docker" THEN <<3, 4>>
                                         ELSE <<-4, 3>>]
  /\ entries = <<>>
  /\ m_query = ""
  /\ m_top_k = 0
  /\ m_result = <<>>

\* the return value of an earlier search is gone once another call is made
NoSearchResult ==
  /\ m_query' = ""
  /\ m_top_k' = 0
  /\ m_result' = <<>>

\* the return value of an earlier build_memory_context is gone once another call is made
NoContextResult ==
  /\ c_history' = <<>>
  /\ c_current' = ""
  /\ c_raised' = FALSE
  /\ c_ner_raise' = FALSE
  /\ c_summary' = ""
  /\ c_context' = "?"

\* semantic_mem.add(text)
Add(text) ==
  /\ Len(entries) < MaxEntries
  /\ entries' = add(entries, text)
  /\ op' = "add"
  /\ NoSearchResult
  /\ NoContextResult
  /\ UNCHANGED <<hashvec, ctxCfg>>

\* model.ingest_history(history)
IngestHistory(history) ==
  /\ Len(entries) + Len(history) <= MaxEntries
  /\ entries' = ingest_history(entries, history)
  /\ op' = "ingest_history"
  /\ NoSearchResult
  /\ NoContextResult
  /\ UNCHANGED <<hashvec, ctxCfg>>

Search_ingesting(query, top_k) ==
  /\ m_query' = query
  /\ m_top_k' = top_k
  /\ m_result' = search(entries, query, top_k)
  /\ entries' = IF Len(entries) < MaxEntries THEN add(entries, query) ELSE entries
  /\ op' = "search"
  /\ NoContextResult
  /\ UNCHANGED <<hashvec, ctxCfg>>

\* semantic_mem.search(query, top_k)
Search(query, top_k) ==
  /\ m_query' = query
  /\ m_top_k' = top_k
  /\ m_result' = search(entries, query, top_k)
  /\ op' = "search"
  /\ NoContextResult
  /\ UNCHANGED <<hashvec, entries, ctxCfg>>

----------------------------------------------------------------------------
(* Python string operations used by the summarizer and the entity extractor *)

\* ch.lower() / ch.upper() for one ASCII character
LowerChar(ch) == IF ord(ch) >= 65 /\ ord(ch) <= 90 THEN chr(ord(ch) + 32) ELSE ch

UpperChar(ch) == IF ord(ch) >= 97 /\ ord(ch) <= 122 THEN chr(ord(ch) - 32) ELSE ch

\* text.lower()
RECURSIVE Lower(_)
Lower(text) ==
  IF Len(text) = 0 THEN ""
  ELSE IF Len(text) = 1 THEN LowerChar(text)
  ELSE LET h == Len(text) \div 2
       IN Lower(SubSeq(text, 1, h)) \o Lower(SubSeq(text, h + 1, Len(text)))

\* kw.title() for a keyword that is one lower-case word
Title(kw) == UpperChar(CharAt(kw, 0)) \o SubSeq(kw, 2, Len(kw))

\* "sub in text"
Contains(text, sub) ==
  \E i \in 0..(Len(text) - Len(sub)) : SubSeq(text, i + 1, i + Len(sub)) = sub

\* text.strip()
Strip(text) ==
  LET I == {i \in 1..Len(text) : SubSeq(text, i, i) \notin Whitespace}
  IN IF I = {} THEN ""
     ELSE SubSeq(text, CHOOSE i \in I : \A j \in I : i <= j,
                       CHOOSE i \in I : \A j \in I : i >= j)

\* sep.join(parts)
RECURSIVE Join(_, _)
Join(parts, sep) ==
  IF parts = <<>> THEN ""
  ELSE IF Len(parts) = 1 THEN parts[1]
  ELSE LET h == Len(parts) \div 2
       IN Join(SubSeq(parts, 1, h), sep) \o sep \o Join(SubSeq(parts, h + 1, Len(parts)), sep)

\* 0-based end (exclusive) of the run of non-whitespace characters that starts at i
RECURSIVE WordEnd(_, _)
WordEnd(s, i) ==
  IF i < Len(s) /\ CharAt(s, i) \notin Whitespace THEN WordEnd(s, i + 1) ELSE i

\* the words of s that start at a position of lo..hi-1, in order
RECURSIVE SplitRange(_, _, _)
SplitRange(s, lo, hi) ==
  IF hi <= lo THEN <<>>
  ELSE IF hi = lo + 1
    THEN (IF /\ CharAt(s, lo) \notin Whitespace
             /\ (lo = 0 \/ CharAt(s, lo - 1) \in Whitespace)
            THEN <<SubSeq(s, lo + 1, WordEnd(s, lo))>> ELSE <<>>)
  ELSE LET mid == (lo + hi) \div 2
       IN SplitRange(s, lo, mid) \o SplitRange(s, mid, hi)

\* text.split()
split(text) == SplitRange(text, 0, Len(text))

SentenceEnd == {".", "!", "?"}

\* 0-based end (exclusive) of the run of sentence delimiters that starts at i
RECURSIVE RunEnd(_, _)
RunEnd(s, i) == IF i < Len(s) /\ CharAt(s, i) \in SentenceEnd THEN RunEnd(s, i + 1) ELSE i

\* re.split(r"[.!?]+", text)
RECURSIVE re_split(_)
re_split(text) ==
  LET D == {i \in 0..(Len(text) - 1) : CharAt(text, i) \in SentenceEnd}
  IN IF D = {} THEN <<text>>
     ELSE LET d == CHOOSE i \in D : \A j \in D : i <= j
          IN <<Prefix(text, d)>> \o re_split(SubSeq(text, RunEnd(text, d) + 1, Len(text)))

\* [s.strip() for s in parts if s.strip()]
RECURSIVE StripNonEmpty(_)
StripNonEmpty(parts) ==
  IF parts = <<>> THEN <<>>
  ELSE (IF Strip(Head(parts)) # "" THEN <<Strip(Head(parts))>> ELSE <<>>)
         \o StripNonEmpty(Tail(parts))

\* a < b for Python strings of printable ASCII characters
StrLess(a, b) ==
  \E k \in 0..Min2(Len(a), Len(b)) :
    /\ Prefix(a, k) = Prefix(b, k)
    /\ \/ k = Len(a) /\ k < Len(b)
       \/ k < Len(a) /\ k < Len(b) /\ ord(CharAt(a, k)) < ord(CharAt(b, k))

\* sorted(S) for a set S of strings
RECURSIVE Sorted(_)
Sorted(S) ==
  IF S = {} THEN <<>>
  ELSE LET m == CHOOSE x \in S : \A y \in S : y = x \/ StrLess(x, y)
       IN <<m>> \o Sorted(S \ {m})

Range(f) == {f[i] : i \in DOMAIN f}

----------------------------------------------------------------------------
(* memory_features.py: SummarizationLayer, NERExtractor and the feature wrappers *)

\* SummarizationFeature.__init__: max_tokens defaults to 256
SUM_MAX_TOKENS == 256

\* _extractive_summarize without the cut at max_sentences
extractive_summarize_all(text, max_sentences) ==
  LET sentences == StripNonEmpty(re_split(text))
  IN IF sentences = <<>> THEN text
     ELSE Join(sentences, ". ") \o "."

\* SummarizationLayer._extractive_summarize(text, max_sentences)
extractive_summarize(text, max_sentences) ==
  LET sentences == StripNonEmpty(re_split(text))
  IN IF sentences = <<>> THEN text
     ELSE Join(SubSeq(sentences, 1, Min2(max_sentences, Len(sentences))), ". ") \o "."

\* max_input_words: the summarizer is given at most this many words
MAX_INPUT_WORDS == 1024

\* the text handed to the summarizer: " ".join(words[:1024]) when it has more words
InputText(text) ==
  LET words == split(text)
  IN IF Len(words) > MAX_INPUT_WORDS
       THEN Join(SubSeq(words, 1, MAX_INPUT_WORDS), " ") ELSE text

\* SummarizationLayer.summarize of a layer whose _summarizer is not None iff
\* available. hf is what the summarization pipeline does when it is called:
\* [kind |-> "raise"], [kind |-> "text"] (no summary_text in the result),
\* [kind |-> "empty"] (an empty list) or [kind |-> "summary", summary |-> its text].
layer_summarize(available, text, hf) ==
  IF IsBlank(text) THEN ""
  ELSE IF ~available THEN extractive_summarize(text, 5)
  ELSE IF hf.kind = "raise" THEN extractive_summarize(InputText(text), 5)
  ELSE IF hf.kind \in {"text", "empty"} THEN InputText(text)
  ELSE hf.summary

\* self.summarizer.summarize of the variant under build_memory_context
summarize(text, hf) == layer_summarize(summarizer_ok, text, hf)

\* SummarizationFeature.summarize: summarize, then truncate to its own budget
sum_feat_summarize(text, hf) == truncate(summarize(text, hf), SUM_MAX_TOKENS)

tok_feat_truncate_off(text) == text

\* TokenLimitFeature(STM_MAX_TOKENS).truncate
tok_feat_truncate(text) == truncate(text, stm_max_tokens)

tech_keywords ==
  <<"python", "java", "javascript", "typescript", "react", "sql", "aws", "docker",
    "kubernetes">>

EmptyBundle ==
  [raised |-> FALSE, skills |-> <<>>, companies |-> <<>>, roles |-> <<>>,
   locations |-> <<>>, other |-> <<>>]

\* [kw.title() for kw in tech_keywords[i:] if kw in text_lower]
RECURSIVE FoundKeywords(_, _)
FoundKeywords(text_lower, i) ==
  IF i > Len(tech_keywords) THEN <<>>
  ELSE (IF Contains(text_lower, tech_keywords[i]) THEN <<Title(tech_keywords[i])>> ELSE <<>>)
         \o FoundKeywords(text_lower, i + 1)

\* NERExtractor._fallback
ner_fallback(text) == [EmptyBundle EXCEPT !.skills = FoundKeywords(Lower(text), 1)]

\* the texts of the entities of doc.ents whose label is in labels
EntTexts(ents, labels) == {ents[i].text : i \in {j \in DOMAIN ents : ents[j].label \in labels}}

\* NERExtractor.extract_entities. ner is what self.nlp(text) does when it is
\* called: [raise |-> TRUE], or [raise |-> FALSE, ents |-> doc.ents]
extract_entities(text, ner) ==
  IF IsBlank(text) THEN EmptyBundle
  ELSE IF ~nlp_ok THEN ner_fallback(text)
  ELSE IF ner.raise THEN [EmptyBundle EXCEPT !.raised = TRUE]
  ELSE LET labels == {ner.ents[i].label : i \in DOMAIN ner.ents}
       IN [EmptyBundle EXCEPT
             !.companies = Sorted(EntTexts(ner.ents, {"ORG"})),
             !.locations = Sorted(EntTexts(ner.ents, {"GPE", "LOC"})),
             !.other = Sorted(EntTexts(ner.ents, labels \ {"ORG", "GPE", "LOC"}))]

\* the lines "Skills: ...", "Roles: ...", "Companies: ..." of the non-empty buckets
EntityParts(entities) ==
  (IF entities.skills # <<>> THEN <<"Skills: " \o Join(entities.skills, ", ")>> ELSE <<>>)
    \o (IF entities.roles # <<>> THEN <<"Roles: " \o Join(entities.roles, ", ")>> ELSE <<>>)
    \o (IF entities.companies # <<>>
          THEN <<"Companies: " \o Join(entities.companies, ", ")>> ELSE <<>>)

----------------------------------------------------------------------------
(* model_3_sum_tok_ner.py and model_4_full_memory.py: build_memory_context *)

\* the outcome of a call: raised, the summary after truncation, the returned string
Returned(summary, context) == [raised |-> FALSE, summary |-> summary, context |-> context]

Raised(summary) == [raised |-> TRUE, summary |-> summary, context |-> ""]

\* SumTokNerLSTM.build_memory_context
sum_tok_ner_build(history, current, hf, ner) ==
  IF history = <<>> THEN Returned("", "")
  ELSE LET history_text == Join(history, "\n")
           summary == tok_feat_truncate(sum_feat_summarize(history_text, hf))
           entities == extract_entities(summary, ner)
           entity_block == Join(EntityParts(entities), "\n")
       IN IF entities.raised THEN Raised(summary)
          ELSE Returned(summary,
                        summary \o (IF entity_block # "" THEN "\n\n" \o entity_block ELSE ""))

\* the blocks with the semantic memories in front of the entities
full_memory_blocks_swapped(summary, ner_block, retrieved_block) ==
  (IF summary # "" THEN <<"=== STM Summary ===\n" \o summary>> ELSE <<>>)
    \o (IF retrieved_block # ""
          THEN <<"=== Semantic Memories ===\n" \o retrieved_block>> ELSE <<>>)
    \o (IF ner_block # "" THEN <<"=== Entities ===\n" \o ner_block>> ELSE <<>>)

full_memory_blocks_unguarded(summary, ner_block, retrieved_block) ==
  <<"=== STM Summary ===\n" \o summary>>
    \o (IF ner_block # "" THEN <<"=== Entities ===\n" \o ner_block>> ELSE <<>>)
    \o (IF retrieved_block # ""
          THEN <<"=== Semantic Memories ===\n" \o retrieved_block>> ELSE <<>>)

\* the list "blocks" of FullMemoryLSTM.build_memory_context
full_memory_blocks(summary, ner_block, retrieved_block) ==
  (IF summary # "" THEN <<"=== STM Summary ===\n" \o summary>> ELSE <<>>)
    \o (IF ner_block # "" THEN <<"=== Entities ===\n" \o ner_block>> ELSE <<>>)
    \o (IF retrieved_block # ""
          THEN <<"=== Semantic Memories ===\n" \o retrieved_block>> ELSE <<>>)

\* FullMemoryLSTM.build_memory_context
full_memory_build(history, current, hf, ner) ==
  LET history_text == Join(history, "\n")
      summary0 == IF history # <<>> THEN sum_feat_summarize(history_text, hf) ELSE ""
      summary == IF summary0 # "" THEN tok_feat_truncate(summary0) ELSE ""
      entities == IF summary # "" THEN extract_entities(summary, ner) ELSE EmptyBundle
      ner_block == Join(EntityParts(entities), "\n")
      retrieved == search(entries, current, 3)
      retrieved_block == IF retrieved # <<>> THEN Join(retrieved, "\n\n") ELSE ""
      blocks == full_memory_blocks(summary, ner_block, retrieved_block)
  IN IF entities.raised THEN Raised(summary)
     ELSE Returned(summary, Join(blocks, "\n\n"))

\* what the summarization pipeline can do on a call
HFOutcomes ==
  IF summarizer_ok
    THEN {[kind |-> "raise"], [kind |-> "text"],
          [kind |-> "summary", summary |-> "The user knows Python and AWS."]}
    ELSE {[kind |-> "none"]}

\* what the spaCy pipeline can do on a call
NEROutcomes ==
  IF nlp_ok
    THEN {[raise |-> TRUE],
          [raise |-> FALSE, ents |-> <<>>],
          [raise |-> FALSE,
           ents |-> <<[text |-> "Zeta", label |-> "ORG"], [text |-> "Acme", label |-> "ORG"],
                      [text |-> "Oslo", label |-> "GPE"], [text |-> "Acme", label |-> "ORG"],
                      [text |-> "Monday", label |-> "DATE"]>>]}
    ELSE {[raise |-> FALSE, ents |-> <<>>]}

\* the messages of the histories handed to build_memory_context
CtxMessages == {"sql", "ok then.", "I use Java! Why?", "  "}

CtxHistories == SeqsUpTo(CtxMessages, MaxHist)

CtxInit ==
  /\ variant \in {"sum_tok_ner", "full_memory"}
  /\ summarizer_ok \in BOOLEAN
  /\ nlp_ok \in BOOLEAN
  /\ stm_max_tokens \in 0..MaxTokens
  /\ c_history = <<>>
  /\ c_current = ""
  /\ c_raised = FALSE
  /\ c_ner_raise = FALSE
  /\ c_summary = ""
  /\ c_context = "?"

CtxIdle ==
  /\ variant = "full_memory"
  /\ summarizer_ok = FALSE
  /\ nlp_ok = FALSE
  /\ stm_max_tokens = MaxTokens
  /\ c_history = <<>>
  /\ c_current = ""
  /\ c_raised = FALSE
  /\ c_ner_raise = FALSE
  /\ c_summary = ""
  /\ c_context = "?"

\* model.build_memory_context(history, current)
BuildMemoryContext(history, current, hf, ner) ==
  /\ LET r == IF variant = "sum_tok_ner"
                THEN sum_tok_ner_build(history, current, hf, ner)
                ELSE full_memory_build(history, current, hf, ner)
     IN /\ c_raised' = r.raised
        /\ c_summary' = r.summary
        /\ c_context' = r.context
  /\ c_history' = history
  /\ c_current' = current
  /\ c_ner_raise' = ner.raise
  /\ op' = "build_memory_context"
  /\ NoSearchResult
  /\ UNCHANGED <<ctxCfg, hashvec, entries>>

\* model.prepare_input_text(history, question), as the harnesses call it: the
\* memory context is build_memory_context(history, question)
PrepareInputText(history, question, hf, ner) ==
  BuildMemoryContext(history, question, hf, ner)

----------------------------------------------------------------------------
(* eval_synthetic_qa.py and eval_task_memory.py: text_similarity and the loops *)

\* normalize_text: lower + strip + collapse whitespace
normalize_text(text) == IF text = "" THEN "" ELSE Join(split(Lower(Strip(text))), " ")

\* length of the longest common prefix of a[i:] and b[j:]
RECURSIVE ComLen(_, _, _, _)
ComLen(a, b, i, j) ==
  IF i < Len(a) /\ j < Len(b) /\ CharAt(a, i) = CharAt(b, j)
    THEN 1 + ComLen(a, b, i + 1, j + 1) ELSE 0

\* difflib.SequenceMatcher(None, a, b).find_longest_match over all of a and b, as
\* <<i, j, k>>: the longest block a[i:i+k] == b[j:j+k], the earliest in a and then
\* the earliest in b among the longest. No character is junk (isjunk is None and
\* the automatic junk heuristic needs len(b) >= 200).
find_longest_match(a, b) ==
  LET P == (0..(Len(a) - 1)) \X (0..(Len(b) - 1))
      L == [p \in P |-> ComLen(a, b, p[1], p[2])]
      k == Max({0} \cup {L[p] : p \in P})
      Best == {p \in P : L[p] = k}
      i == CHOOSE x \in {p[1] : p \in Best} : \A p \in Best : x <= p[1]
      j == CHOOSE y \in {p[2] : p \in {q \in Best : q[1] = i}} :
             \A p \in {q \in Best : q[1] = i} : y <= p[2]
  IN IF k = 0 THEN <<0, 0, 0>> ELSE <<i, j, k>>

\* sum of the sizes of SequenceMatcher.get_matching_blocks(): the longest block,
\* then the same to the left and to the right of it
RECURSIVE matches(_, _)
matches(a, b) ==
  IF a = "" \/ b = "" THEN 0
  ELSE LET m == find_longest_match(a, b)
       IN IF m[3] = 0 THEN 0
          ELSE m[3] + matches(SubSeq(a, 1, m[1]), SubSeq(b, 1, m[2]))
                    + matches(SubSeq(a, m[1] + m[3] + 1, Len(a)),
                              SubSeq(b, m[2] + m[3] + 1, Len(b)))

\* SequenceMatcher.ratio(): 2.0 * matches / (len(a) + len(b)), 1.0 for two empty
\* strings; the quotient is kept as <<numerator, denominator>>
ratio(a, b) ==
  IF Len(a) + Len(b) = 0 THEN <<1, 1>> ELSE <<2 * matches(a, b), Len(a) + Len(b)>>

\* text_similarity
text_similarity(a, b) == ratio(normalize_text(a), normalize_text(b))

\* "sim >= sim_threshold" for two quotients
AtLeast(sim, threshold) == sim[1] * threshold[2] >= threshold[1] * sim[2]

QARows ==
  {[qa_id |-> 1, question |-> "What does SkillMiner do?",
    answer |-> "SkillMiner analyzes your input and responds."],
   [qa_id |-> 2, question |-> "Which skill next?", answer |-> "Learn  SQL "]}

\* the strings a QA predict_fn may return
QAPreds ==
  {"SkillMiner analyzes your input and prepares a response.", "learn sql", ""}

TaskRows ==
  {[task_id |-> 1, user_id |-> "u1", request |-> "I failed the quiz",
    task_label |-> "adjust_plan", task_summary |-> "adjust the user's study plan"],
   [task_id |-> 2, user_id |-> "u2", request |-> "skip week 2",
    task_label |-> "skip", task_summary |-> "Skip a week"]}

\* the strings a task predict_fn may return
TaskPreds == {"adjust the user's study plan", "7 the user's study plan", ""}

\* text_similarity of every (prediction, ground truth) pair the loops compare
SimTable ==
  [p \in (QAPreds \X {r.answer : r \in QARows})
           \cup (TaskPreds \X {r.task_summary : r \in TaskRows})
     |-> text_similarity(p[1], p[2])]

\* f"Q: {q}\nA: {true_a}"
QAEntry(q, true_a) == "Q: " \o q \o "\nA: " \o true_a

\* f"User {user_id} just said: '{request}'. What task should you perform for this user?"
TaskQuestion(user_id, request) ==
  "User " \o user_id \o " just said: '" \o request
    \o "'. What task should you perform for this user?"

\* f"user {user_id}: {request} => {summary}"
TaskEntry(user_id, request, summary) == "user " \o user_id \o ": " \o request \o " => " \o summary

ReplayInit ==
  /\ \/ q_kind = "qa" /\ q_data \in SeqsUpTo(QARows, MaxRows)
                      /\ q_sim_threshold \in {<<6, 10>>, <<8, 10>>}
     \/ q_kind = "task" /\ q_data \in SeqsUpTo(TaskRows, MaxRows)
                        /\ q_sim_threshold \in {<<7, 10>>}
  /\ q_history_size \in 0..MaxHistSize
  /\ q_pc = "loop"
  /\ q_i = 0
  /\ q_total = 0
  /\ q_correct = 0
  /\ q_history_texts = <<>>
  /\ q_history = <<>>
  /\ q_question = ""
  /\ q_pred = ""
  /\ q_acc = <<>>

ReplayIdle ==
  /\ q_kind = "none"
  /\ q_data = <<>>
  /\ q_sim_threshold = <<8, 10>>
  /\ q_history_size = 0
  /\ q_pc = "done"
  /\ q_i = 0
  /\ q_total = 0
  /\ q_correct = 0
  /\ q_history_texts = <<>>
  /\ q_history = <<>>
  /\ q_question = ""
  /\ q_pred = ""
  /\ q_acc = <<>>

\* one iteration of "for qa_id, q, true_a in data" of evaluate_model, predict_fn
\* returning pred_a
EvaluateModelRow(pred_a) ==
  /\ q_kind = "qa"
  /\ q_pc = "loop"
  /\ q_i < Len(q_data)
  /\ LET row == q_data[q_i + 1]
         history == LastN(q_history_texts, q_history_size)
         sim == SimTable[<<pred_a, row.answer>>]
     IN /\ q_history' = history
        /\ q_question' = row.question
        /\ q_pred' = pred_a
        /\ q_correct' = IF AtLeast(sim, q_sim_threshold) THEN q_correct + 1 ELSE q_correct
        /\ q_total' = q_total + 1
        /\ q_history_texts' = Append(q_history_texts, QAEntry(row.question, row.answer))
  /\ q_i' = q_i + 1
  /\ op' = "evaluate_model_row"
  /\ UNCHANGED <<q_kind, q_data, q_history_size, q_sim_threshold, q_pc, q_acc>>

\* one iteration of "for task_id, user_id, request, label, summary in data" of
\* evaluate_task_model, predict_fn returning pred
EvaluateTaskRow(pred) ==
  /\ q_kind = "task"
  /\ q_pc = "loop"
  /\ q_i < Len(q_data)
  /\ LET row == q_data[q_i + 1]
         history == LastN(q_history_texts, q_history_size)
         question == TaskQuestion(row.user_id, row.request)
         sim == SimTable[<<pred, row.task_summary>>]
     IN /\ q_history' = history
        /\ q_question' = question
        /\ q_pred' = pred
        /\ q_correct' = IF AtLeast(sim, q_sim_threshold) THEN q_correct + 1 ELSE q_correct
        /\ q_total' = q_total + 1
        /\ q_history_texts' =
             Append(q_history_texts, TaskEntry(row.user_id, row.request, row.task_summary))
  /\ q_i' = q_i + 1
  /\ op' = "evaluate_task_row"
  /\ UNCHANGED <<q_kind, q_data, q_history_size, q_sim_threshold, q_pc, q_acc>>

\* after either loop: "acc = correct / total if total else 0.0" and the return
ReplayReturn ==
  /\ q_kind \in {"qa", "task"}
  /\ q_pc = "loop"
  /\ q_i = Len(q_data)
  /\ q_acc' = IF q_total # 0 THEN <<q_correct, q_total>> ELSE <<0, 1>>
  /\ q_pc' = "done"
  /\ op' = "replay_return"
  /\ UNCHANGED <<q_kind, q_data, q_history_size, q_sim_threshold, q_i, q_total, q_correct,
                 q_history_texts, q_history, q_question, q_pred>>

----------------------------------------------------------------------------
(* eval_logs_memory.py, eval_synthetic_qa.py, eval_task_memory.py:              *)
(* init_base_lstm and the four predict functions                              *)

\* the four variants, in the order init_base_lstm builds them; the names are
\* those of the checkpoint files <name>_best.pt
VariantNames == <<"summarization_only", "sum_token_limit", "sum_tok_ner", "full_memory">>

Variants == {VariantNames[k] : k \in DOMAIN VariantNames}

\* init_base_lstm from its k-th block on. Only the logs module looks for a
\* checkpoint; torch.load / load_state_dict on an unloadable file raise and
\* nothing catches it.
RECURSIVE init_from(_, _)
init_from(inst, k) ==
  IF k > Len(VariantNames) THEN [instances |-> inst, raised |-> FALSE]
  ELSE LET v == VariantNames[k]
       IN IF inst[v] # "none" \/ ~variants_ok \/ ~base_ok THEN init_from(inst, k + 1)
          ELSE IF h_harness = "logs" /\ ckpt_files[v] = "malformed"
            THEN [instances |-> inst, raised |-> TRUE]
          ELSE init_from([inst EXCEPT ![v] = IF h_harness = "logs" /\ ckpt_files[v] = "valid"
                                               THEN "loaded" ELSE "fresh"],
                         k + 1)

\* init_base_lstm()
init_base_lstm(inst) == init_from(inst, 1)

\* the fixed answer of a predict function without an instance
StubText ==
  IF h_harness = "logs" THEN "The current level is 1."
  ELSE IF h_harness = "qa" THEN "SkillMiner analyzes your input and prepares a response."
  ELSE "adjust the user's study plan"

DecodedText_any_character(pred_id) ==
  LET pred_text == Strip(decode_ids(<<pred_id>>))
  IN IF h_harness = "logs" THEN "The current level is 1" \o pred_text \o "."
     ELSE IF pred_text # "" THEN pred_text ELSE StubText

\* the end of _predict_with_lstm / _qa_predict_with_model / _task_predict_with_model:
\* the answer built from the argmax id of the last time step
DecodedText(pred_id) ==
  LET pred_text == Strip(decode_ids(<<pred_id>>))
  IN IF h_harness = "logs"
       THEN (IF pred_text # "" /\ IsDigit(CharAt(pred_text, 0))
               THEN "The current level is " \o CharAt(pred_text, 0) \o "."
               ELSE "The current level is 1.")
     ELSE IF h_harness = "qa"
       THEN (IF pred_text # "" THEN "SkillMiner answers: " \o pred_text ELSE StubText)
     ELSE (IF pred_text # "" THEN pred_text \o " the user's study plan" ELSE StubText)

\* the ids argmax may return
PredIds == {0, STOI(" "), STOI("0"), STOI("7"), STOI("a"), VOCAB_SIZE - 1}

PredictInit ==
  /\ h_harness \in {"logs", "qa", "task"}
  /\ base_ok \in BOOLEAN
  /\ variants_ok \in BOOLEAN
  /\ ckpt_files \in [Variants -> {"missing", "valid", "malformed"}]
  /\ instances = [v \in Variants |-> "none"]
  /\ device = FALSE
  /\ p_variant = "none"
  /\ p_path = "none"
  /\ p_weights = "none"
  /\ p_raised = FALSE
  /\ p_text = ""

PredictIdle ==
  /\ h_harness = "logs"
  /\ base_ok = FALSE
  /\ variants_ok = FALSE
  /\ ckpt_files = [v \in Variants |-> "missing"]
  /\ instances = [v \in Variants |-> "none"]
  /\ device = FALSE
  /\ p_variant = "none"
  /\ p_path = "none"
  /\ p_weights = "none"
  /\ p_raised = FALSE
  /\ p_text = ""

\* model0_base_lstm_predict .. model3_fullmem_predict(history, question) for the
\* variant v. pred_id is the argmax of the last logits; prepare_raises says that
\* model.prepare_input_text raised (the entity extractor of the two variants
\* that have one can raise).
Predict(v, pred_id, prepare_raises) ==
  /\ prepare_raises => v \in {"sum_tok_ner", "full_memory"}
  /\ LET r == init_base_lstm(instances)
     IN /\ instances' = r.instances
        /\ IF r.raised
             THEN /\ p_path' = "init_raised"
                  /\ p_weights' = "none"
                  /\ p_raised' = TRUE
                  /\ p_text' = ""
           ELSE IF r.instances[v] = "none"
             THEN /\ p_path' = "stub"
                  /\ p_weights' = "none"
                  /\ p_raised' = FALSE
                  /\ p_text' = StubText
           ELSE /\ p_path' = "lstm"
                /\ p_weights' = r.instances[v]
                /\ p_raised' = prepare_raises
                /\ p_text' = IF prepare_raises THEN "" ELSE DecodedText(pred_id)
  /\ device' = TRUE
  /\ p_variant' = v
  /\ op' = "predict"
  /\ UNCHANGED <<h_harness, base_ok, variants_ok, ckpt_files>>

----------------------------------------------------------------------------
(* train_logs_lstm.py: LogsLevelDataset and its cache of input texts *)

\* the rows of the logs CSV a training run may load
DsRows ==
  {[user_id |-> "u1", level |-> 3, message |-> "u1 gained 10 exp."],
   [user_id |-> "u2", level |-> 12, message |-> "u2 reached level 12!"]}

\* model.prepare_input_text(history, question) of the Summarization-only variant:
\* the memory context of the history, then the question
prepare_input_text(history, question) ==
  LET context == IF history = <<>> THEN ""
                 ELSE sum_feat_summarize(Join(history, "\n"), [kind |-> "none"])
  IN IF context = "" THEN question ELSE context \o "\n\n" \o question

\* self._histories with row i's own message appended before the slice
Histories_inclusive(rows, hsize) ==
  [i \in 1..Len(rows) |->
     LastN([j \in 1..i |-> rows[j].message], hsize)]

\* self._histories: for row i the last history_size messages of the rows before it
Histories(rows, hsize) ==
  [i \in 1..Len(rows) |->
     LastN([j \in 1..(i - 1) |-> rows[j].message], hsize)]

\* the list the "elif model is not None" branch computes
ComputedInputTexts(rows, histories) ==
  [i \in 1..Len(rows) |-> prepare_input_text(histories[i], Question(rows[i].user_id))]

DatasetInit ==
  /\ cache_exists = FALSE
  /\ cache_json = <<>>
  /\ ds_built = FALSE
  /\ ds_rows = <<>>
  /\ ds_history_size = 0
  /\ ds_histories = <<>>
  /\ ds_cached = <<>>
  /\ ds_from_cache = FALSE
  /\ gi_idx = 0
  /\ gi_raised = FALSE
  /\ gi_cached_text = None
  /\ gi_history = <<>>
  /\ gi_question = ""
  /\ gi_digit = 0

DatasetIdle == DatasetInit

\* LogsLevelDataset(rows, history_size=hsize, cache_path=cache_path, model=model)
\* as main builds it: cache_path is a non-empty path and model is not None
LogsLevelDataset(rows, hsize) ==
  /\ ds_rows' = rows
  /\ ds_history_size' = hsize
  /\ ds_histories' = Histories(rows, hsize)
  /\ IF cache_exists
       THEN /\ ds_cached' = cache_json
            /\ ds_from_cache' = TRUE
            /\ UNCHANGED <<cache_exists, cache_json>>
       ELSE /\ ds_cached' = ComputedInputTexts(rows, Histories(rows, hsize))
            /\ ds_from_cache' = FALSE
            /\ cache_exists' = TRUE
            /\ cache_json' = ComputedInputTexts(rows, Histories(rows, hsize))
  /\ ds_built' = TRUE
  /\ gi_idx' = 0
  /\ gi_raised' = FALSE
  /\ gi_cached_text' = None
  /\ gi_history' = <<>>
  /\ gi_question' = ""
  /\ gi_digit' = 0
  /\ op' = "dataset_init"

\* int(str(level_true)[-1])
LastDigit(level_true) == Abs(level_true) % 10

\* the tuple (history, question, digit) of dataset[idx]
DatasetItem(rows, histories, idx) ==
  [history |-> histories[idx + 1],
   question |-> Question(rows[idx + 1].user_id),
   digit |-> LastDigit(rows[idx + 1].level)]

\* dataset[idx] for 0 <= idx < len(dataset)
GetItem(idx) ==
  /\ ds_built
  /\ idx < Len(ds_rows)
  /\ gi_idx' = idx
  /\ IF ds_cached = <<>>
       THEN gi_raised' = FALSE /\ gi_cached_text' = None
       ELSE IF idx < Len(ds_cached)
         THEN gi_raised' = FALSE /\ gi_cached_text' = <<ds_cached[idx + 1]>>
         ELSE gi_raised' = TRUE /\ gi_cached_text' = None
  /\ LET item == DatasetItem(ds_rows, ds_histories, idx)
         raises == ds_cached # <<>> /\ idx >= Len(ds_cached)
     IN /\ gi_history' = IF raises THEN <<>> ELSE item.history
        /\ gi_question' = IF raises THEN "" ELSE item.question
        /\ gi_digit' = IF raises THEN 0 ELSE item.digit
  /\ op' = "getitem"
  /\ UNCHANGED <<cache_exists, cache_json, ds_built, ds_rows, ds_history_size, ds_histories,
                 ds_cached, ds_from_cache>>

----------------------------------------------------------------------------
(* stm.py: SummarizationLayer, and calls of summarize of both layers *)

STM_MAX_TOKENS == 500

\* "max_length or STM_MAX_TOKENS" for max_length None or a one-element tuple
OrDefault(max_length) ==
  IF max_length = None \/ max_length[1] = 0 THEN STM_MAX_TOKENS ELSE max_length[1]

\* max_length after "if max_length is None: max_length = min(...)"
DefaultedMaxLength(text, max_length) ==
  IF max_length = None
    THEN Some(Min2(STM_MAX_TOKENS, Max2(32, Len(split(text)) \div 2)))
    ELSE max_length

\* stm.SummarizationLayer.summarize(text, max_length) of a layer whose summarizer
\* is not None iff available
stm_summarize(available, text, max_length, hf) ==
  IF IsBlank(text) THEN ""
  ELSE IF ~available THEN extractive_summarize(text, OrDefault(max_length))
  ELSE IF hf.kind \in {"raise", "empty"}
    THEN extractive_summarize(InputText(text), OrDefault(DefaultedMaxLength(text, max_length)))
  ELSE IF hf.kind = "text" THEN InputText(text)
  ELSE hf.summary

\* a text of 1025 words: 1024 times "a", then "b."
Words1025 == Dbl(Dbl(Dbl(Dbl(Dbl(Dbl(Dbl(Dbl(Dbl(Dbl("a ")))))))))) \o "b."

\* the texts handed to summarize
SumTexts ==
  {"", " \n", "...", "ok", "a. b. c. d. e. f.", "I use  Java! Why?\nfor work", "  one.  two  ",
   Words1025}

\* what the pipeline can do on a call
SumOutcomes ==
  {[kind |-> "raise"], [kind |-> "text"], [kind |-> "empty"],
   [kind |-> "summary", summary |-> "The user knows Python and AWS."]}

SumInit ==
  /\ s_layer \in {"research", "stm"}
  /\ s_available \in BOOLEAN
  /\ s_text = ""
  /\ s_max_length = None
  /\ s_hf = [kind |-> "none"]
  /\ s_raised = FALSE
  /\ s_out = "?"

SumIdle ==
  /\ s_layer = "research"
  /\ s_available = FALSE
  /\ s_text = ""
  /\ s_max_length = None
  /\ s_hf = [kind |-> "none"]
  /\ s_raised = FALSE
  /\ s_out = "?"

\* layer.summarize(text) of the research layer, layer.summarize(text, max_length)
\* of the STM layer; every exception of the pipeline call is caught inside
Summarize(text, max_length, hf) ==
  /\ s_layer = "research" => max_length = None
  /\ s_available = (hf.kind # "none")
  /\ s_text' = text
  /\ s_max_length' = max_length
  /\ s_hf' = hf
  /\ s_out' = IF s_layer = "research"
                THEN layer_summarize(s_available, text, hf)
                ELSE stm_summarize(s_available, text, max_length, hf)
  /\ s_raised' = FALSE
  /\ op' = "summarize"
  /\ UNCHANGED <<s_layer, s_available>>

----------------------------------------------------------------------------
(* stm.py: the tokenizer path of TokenLimitController and ShortTermMemory *)

\* The character classes of the tokenizer's pre-tokenization: letters, digits,
\* whitespace, anything else
CharClass(ch) ==
  IF ch \in Whitespace THEN "S"
  ELSE IF IsDigit(ch) THEN "N"
  ELSE IF (ord(ch) >= 65 /\ ord(ch) <= 90) \/ (ord(ch) >= 97 /\ ord(ch) <= 122) THEN "L"
  ELSE "P"

\* 0-based end (exclusive) of the run of characters of class cls that starts at i
RECURSIVE ClassRunEnd(_, _, _)
ClassRunEnd(s, i, cls) ==
  IF i < Len(s) /\ CharClass(CharAt(s, i)) = cls THEN ClassRunEnd(s, i + 1, cls) ELSE i

\* 0-based end (exclusive) of the token that starts at i: a run of letters, of
\* digits or of other characters with at most one space in front, or whitespace
TokenEnd(s, i) ==
  LET c == CharAt(s, i)
  IN IF c \notin Whitespace THEN ClassRunEnd(s, i, CharClass(c))
     ELSE LET w == ClassRunEnd(s, i, "S")
          IN IF w = Len(s) THEN w
             ELSE IF w - i >= 2 THEN w - 1
             ELSE IF c = " " THEN ClassRunEnd(s, i + 1, CharClass(CharAt(s, i + 1)))
             ELSE i + 1

\* the tokens of s from position i on
RECURSIVE TokensFrom(_, _)
TokensFrom(s, i) ==
  IF i >= Len(s) THEN <<>>
  ELSE <<SubSeq(s, i + 1, TokenEnd(s, i))>> \o TokensFrom(s, TokenEnd(s, i))

\* self.tokenizer.encode(text, add_special_tokens=False): one id per token, an
\* id being written as the token's text
tokenizer_encode(text) == TokensFrom(text, 0)

\* clean_up_tokenization_spaces: a space in front of '.', '?', '!' or ',' is removed
RECURSIVE clean_up(_)
clean_up(s) ==
  IF Len(s) < 2 THEN s
  ELSE IF CharAt(s, 0) = " " /\ CharAt(s, 1) \in {".", "?", "!", ","}
    THEN clean_up(SubSeq(s, 2, Len(s)))
  ELSE CharAt(s, 0) \o clean_up(SubSeq(s, 2, Len(s)))

\* self.tokenizer.decode(ids, skip_special_tokens=True, clean_up_tokenization_spaces=True)
tokenizer_decode(ids) == clean_up(Join(ids, ""))

\* TokenLimitController._estimate_tokens of a controller whose tokenizer loads iff tok
ctrl_estimate_tokens(tok, text) ==
  IF text = "" THEN 0
  ELSE IF tok THEN Len(tokenizer_encode(text))
  ELSE Len(text) \div 4

\* stm.TokenLimitController.truncate of a controller whose tokenizer loads iff tok
ctrl_truncate(tok, text, max_tokens) ==
  IF text = "" THEN ""
  ELSE IF tok
    THEN LET ids == tokenizer_encode(text)
         IN IF Len(ids) <= max_tokens THEN text
            ELSE Strip(tokenizer_decode(SubSeq(ids, 1, max_tokens))) \o "..."
  ELSE stm_truncate(text, max_tokens)

\* ShortTermMemory._format_conversation
RECURSIVE Formatted(_)
Formatted(messages) ==
  IF messages = <<>> THEN <<>>
  ELSE <<(IF Head(messages).role = "user" THEN "User" ELSE "Assistant")
           \o ": " \o Head(messages).content>> \o Formatted(Tail(messages))

format_conversation(messages) == Join(Formatted(messages), "\n\n")

\* the summary ShortTermMemory._update_summary stores
update_summary(messages, hf) ==
  IF messages = <<>> THEN ""
  ELSE LET conversation_text == format_conversation(messages)
           estimated_tokens == ctrl_estimate_tokens(stm_tok_ok, conversation_text)
       IN IF estimated_tokens > stm_budget
            THEN ctrl_truncate(stm_tok_ok,
                               stm_summarize(stm_sum_ok, conversation_text,
                                             Some(stm_budget), hf),
                               stm_budget)
            ELSE ctrl_truncate(stm_tok_ok, conversation_text, stm_budget)

\* the roles and contents handed to add_message
StmRoles == {"user", "assistant"}

StmContents == {"hi", " \n", "I know SQL. And AWS!", "ok"}

StmInit ==
  /\ stm_max_messages \in 1..MaxMessages
  /\ stm_budget \in 0..MaxTokens
  /\ stm_sum_ok \in BOOLEAN
  /\ stm_tok_ok \in BOOLEAN
  /\ recent_messages = <<>>
  /\ stm_summary = ""
  /\ stm_got = "?"

StmIdle ==
  /\ stm_max_messages = 1
  /\ stm_budget = 0
  /\ stm_sum_ok = FALSE
  /\ stm_tok_ok = FALSE
  /\ recent_messages = <<>>
  /\ stm_summary = ""
  /\ stm_got = "?"

\* stm.add_message(role, content), the pipeline doing hf if summarize calls it
AddMessage(role, content, hf) ==
  /\ stm_sum_ok = (hf.kind # "none")
  /\ IF IsBlank(content)
       THEN UNCHANGED <<recent_messages, stm_summary>>
       ELSE LET appended == Append(recent_messages, [role |-> role, content |-> content])
                kept == IF Len(appended) > stm_max_messages
                          THEN LastN(appended, stm_max_messages) ELSE appended
            IN /\ recent_messages' = kept
               /\ stm_summary' = update_summary(kept, hf)
  /\ stm_got' = "?"
  /\ op' = "add_message"
  /\ UNCHANGED <<stm_max_messages, stm_budget, stm_sum_ok, stm_tok_ok>>

\* stm.clear()
Clear ==
  /\ recent_messages' = <<>>
  /\ stm_summary' = ""
  /\ stm_got' = "?"
  /\ op' = "clear"
  /\ UNCHANGED <<stm_max_messages, stm_budget, stm_sum_ok, stm_tok_ok>>

\* stm.get_summary()
GetSummary ==
  /\ stm_got' = stm_summary
  /\ op' = "get_summary"
  /\ UNCHANGED <<stm_max_messages, stm_budget, stm_sum_ok, stm_tok_ok, recent_messages,
                 stm_summary>>

\* a ShortTermMemory constructed with max_messages from 0 on (the value comes
\* from the STM_MAX_MESSAGES environment variable, core/config.py:43), its
\* summarizer and tokenizer not available
StmLogInit ==
  /\ stm_max_messages \in 0..MaxMessages
  /\ stm_budget \in {0, MaxTokens}
  /\ stm_sum_ok = FALSE
  /\ stm_tok_ok = FALSE
  /\ recent_messages = <<>>
  /\ stm_summary = ""
  /\ stm_got = "?"
  /\ stm_added = <<>>
  /\ stm_content = ""
  /\ stm_before = <<>>

StmLogIdle ==
  /\ stm_added = <<>>
  /\ stm_content = ""
  /\ stm_before = <<>>

\* add_message(role, content), the call written down
LoggedAddMessage(role, content) ==
  /\ Len(stm_added) < MaxAdded
  /\ AddMessage(role, content, [kind |-> "none"])
  /\ stm_added' = IF IsBlank(content) THEN stm_added
                  ELSE Append(stm_added, [role |-> role, content |-> content])
  /\ stm_content' = content
  /\ stm_before' = <<recent_messages, stm_summary>>

\* clear(), the call written down
LoggedClear ==
  /\ Clear
  /\ stm_added' = <<>>
  /\ UNCHANGED <<stm_content, stm_before>>

----------------------------------------------------------------------------
(* lstm_memory.py: LSTMCell.forward *)

\* Tensors are sequences of rows of integers. sigmoid and tanh of a number, and
\* the element-wise products and sums of their results, are kept as the terms
\* they are: two terms are equal iff they were built the same way from the same
\* numbers.
Sigmoid(a) == [fn |-> "sigmoid", args |-> <<a>>]

Tanh(a) == [fn |-> "tanh", args |-> <<a>>]

Mul(a, b) == [fn |-> "mul", args |-> <<a, b>>]

Plus(a, b) == [fn |-> "add", args |-> <<a, b>>]

\* self.input_size, self.hidden_size
InputSize == 2

HiddenSize == 2

\* sum of u[j] * v[j] for j in 1..n
RECURSIVE SumProd(_, _, _)
SumProd(u, v, n) == IF n = 0 THEN 0 ELSE SumProd(u, v, n - 1) + u[n] * v[n]

\* M.t()
Transposed(M) == [j \in 1..Len(M[1]) |-> [k \in 1..Len(M) |-> M[k][j]]]

\* torch.matmul(A, B) for two matrices
MatMul(A, B) ==
  [r \in 1..Len(A) |->
     [k \in 1..Len(B[1]) |-> SumProd(A[r], [j \in 1..Len(B) |-> B[j][k]], Len(B))]]

\* A + B for matrices of one shape
MatAdd(A, B) == [r \in 1..Len(A) |-> [k \in 1..Len(A[r]) |-> A[r][k] + B[r][k]]]

\* A + b, the vector b broadcast over the rows of A
AddBias(A, b) == [r \in 1..Len(A) |-> [k \in 1..Len(A[r]) |-> A[r][k] + b[k]]]

\* torch.sigmoid(A), torch.tanh(A), A * B, A + B element-wise
SigmoidAll(A) == [r \in 1..Len(A) |-> [k \in 1..Len(A[r]) |-> Sigmoid(A[r][k])]]

TanhAll(A) == [r \in 1..Len(A) |-> [k \in 1..Len(A[r]) |-> Tanh(A[r][k])]]

MulAll(A, B) == [r \in 1..Len(A) |-> [k \in 1..Len(A[r]) |-> Mul(A[r][k], B[r][k])]]

PlusAll(A, B) == [r \in 1..Len(A) |-> [k \in 1..Len(A[r]) |-> Plus(A[r][k], B[r][k])]]

\* forward with the input gate computed from the forget gate's input weights
forward_wrong_gate(input_tensor, hidden, P) ==
  LET h_prev == hidden[1]
      c_prev == hidden[2]
      i_t == SigmoidAll(AddBias(MatAdd(MatMul(input_tensor, Transposed(P.W_if)),
                                       MatMul(h_prev, Transposed(P.W_hi))), P.b_i))
      f_t == SigmoidAll(AddBias(MatAdd(MatMul(input_tensor, Transposed(P.W_if)),
                                       MatMul(h_prev, Transposed(P.W_hf))), P.b_f))
      g_t == TanhAll(AddBias(MatAdd(MatMul(input_tensor, Transposed(P.W_ig)),
                                    MatMul(h_prev, Transposed(P.W_hg))), P.b_g))
      c_t == PlusAll(MulAll(f_t, c_prev), MulAll(i_t, g_t))
      o_t == SigmoidAll(AddBias(MatAdd(MatMul(input_tensor, Transposed(P.W_io)),
                                       MatMul(h_prev, Transposed(P.W_ho))), P.b_o))
      h_t == MulAll(o_t, TanhAll(c_t))
  IN <<h_t, c_t>>

\* LSTMCell.forward(input_tensor, hidden) of a cell with the parameters P
forward(input_tensor, hidden, P) ==
  LET h_prev == hidden[1]
      c_prev == hidden[2]
      i_t == SigmoidAll(AddBias(MatAdd(MatMul(input_tensor, Transposed(P.W_ii)),
                                       MatMul(h_prev, Transposed(P.W_hi))), P.b_i))
      f_t == SigmoidAll(AddBias(MatAdd(MatMul(input_tensor, Transposed(P.W_if)),
                                       MatMul(h_prev, Transposed(P.W_hf))), P.b_f))
      g_t == TanhAll(AddBias(MatAdd(MatMul(input_tensor, Transposed(P.W_ig)),
                                    MatMul(h_prev, Transposed(P.W_hg))), P.b_g))
      c_t == PlusAll(MulAll(f_t, c_prev), MulAll(i_t, g_t))
      o_t == SigmoidAll(AddBias(MatAdd(MatMul(input_tensor, Transposed(P.W_io)),
                                       MatMul(h_prev, Transposed(P.W_ho))), P.b_o))
      h_t == MulAll(o_t, TanhAll(c_t))
  IN <<h_t, c_t>>

\* the parameters of the cells explored: matrices of HiddenSize rows
CellParams ==
  {[W_ii |-> <<<<1, 2>>, <<0, -1>>>>, W_hi |-> <<<<2, 0>>, <<1, 1>>>>, b_i |-> <<1, 0>>,
    W_if |-> <<<<0, 1>>, <<3, 1>>>>, W_hf |-> <<<<1, -2>>, <<0, 2>>>>, b_f |-> <<0, 2>>,
    W_ig |-> <<<<2, 2>>, <<-1, 0>>>>, W_hg |-> <<<<0, 3>>, <<1, 0>>>>, b_g |-> <<-1, 1>>,
    W_io |-> <<<<1, 0>>, <<2, -2>>>>, W_ho |-> <<<<-1, 1>>, <<2, 1>>>>, b_o |-> <<3, -1>>],
   [W_ii |-> <<<<0, 0>>, <<1, 3>>>>, W_hi |-> <<<<1, 0>>, <<0, 1>>>>, b_i |-> <<0, 0>>,
    W_if |-> <<<<2, -1>>, <<1, 0>>>>, W_hf |-> <<<<0, 1>>, <<1, 0>>>>, b_f |-> <<1, 1>>,
    W_ig |-> <<<<1, 1>>, <<0, 2>>>>, W_hg |-> <<<<2, 1>>, <<0, 0>>>>, b_g |-> <<0, -2>>,
    W_io |-> <<<<-1, 2>>, <<0, 1>>>>, W_ho |-> <<<<1, 1>>, <<1, -1>>>>, b_o |-> <<2, 0>>]}

\* the rows of input_tensor, h_prev and c_prev
XRows == {<<-1, 0>>, <<2, 1>>, <<0, 0>>}

HRows == {<<0, 1>>, <<1, -1>>}

CRows == {<<0, 0>>, <<2, -1>>}

BatchSizes == {1, 2}

CellInit ==
  /\ cell \in CellParams
  /\ \E batch_size \in BatchSizes :
       /\ l_input \in [1..batch_size -> XRows]
       /\ l_h \in [1..batch_size -> HRows]
       /\ l_c \in [1..batch_size -> CRows]
  /\ l_out = <<>>

CellIdle ==
  /\ cell = CHOOSE P \in CellParams : P.b_i = <<0, 0>>
  /\ l_input = <<<<0, 0>>>>
  /\ l_h = <<<<0, 1>>>>
  /\ l_c = <<<<0, 0>>>>
  /\ l_out = <<>>

\* cell(l_input, (l_h, l_c)): no statement of forward assigns to a parameter or
\* to an element of its arguments
Forward ==
  /\ op = "init"
  /\ l_out' = forward(l_input, <<l_h, l_c>>, cell)
  /\ op' = "forward"
  /\ UNCHANGED <<cell, l_input, l_h, l_c>>

----------------------------------------------------------------------------
(* train_logs_lstm.py: padding a batch and taking the last logits *)

\* row[idx] of Python for an index that may be negative
PyIndex(row, idx) == row[(IF idx < 0 THEN idx + Len(row) ELSE idx) + 1]

\* torch.full((batch_size, max_len), _STOI[" "]) followed by
\* batch_ids[i, : e.size(0)] = e for every encoded element
PadBatch(encoded, max_len) ==
  [i \in DOMAIN encoded |->
     [t \in 1..max_len |-> IF t <= Len(encoded[i]) THEN encoded[i][t] ELSE STOI(" ")]]

\* model(batch_ids), of shape (batch, seq_len, vocab): the vector at [i, t] is
\* named by its position
Logits(batch_ids) ==
  [i \in DOMAIN batch_ids |-> [t \in DOMAIN batch_ids[i] |-> [row |-> i - 1, step |-> t - 1]]]

LastIndex_padded(l, max_len) == max_len - 1

\* the index "l - 1" of [l - 1 for l in seq_lens]
LastIndex(l, max_len) == l - 1

\* logits[torch.arange(batch_size), [l - 1 for l in seq_lens], :]
LastLogits(logits, seq_lens, max_len) ==
  [i \in DOMAIN logits |-> PyIndex(logits[i], LastIndex(seq_lens[i], max_len))]

\* the input texts of a batch (taken from the cache or computed by
\* prepare_input_text, lines 196-201 and 257-262)
BatchTexts == {"", "7", "a b", "12 ", "level\t3?"}

BatchFns == {"train_one_epoch", "evaluate_level_accuracy"}

BatchInit ==
  /\ b_fn = "none"
  /\ b_texts = <<>>
  /\ b_seq_lens = <<>>
  /\ b_batch_ids = <<>>
  /\ b_last = <<>>

BatchIdle == BatchInit

\* the body of "for batch in dataloader" of train_one_epoch and of
\* evaluate_level_accuracy up to last_logits, for a batch with the input
\* texts input_texts
HandleBatch(fn, input_texts) ==
  /\ input_texts # <<>>
  /\ LET encoded == [i \in DOMAIN input_texts |-> encode_text(input_texts[i])]
         seq_lens == [i \in DOMAIN encoded |-> Len(encoded[i])]
         max_len == Max(Range(seq_lens))
         batch_ids == PadBatch(encoded, max_len)
     IN /\ b_seq_lens' = seq_lens
        /\ b_batch_ids' = batch_ids
        /\ b_last' = LastLogits(Logits(batch_ids), seq_lens, max_len)
  /\ b_fn' = fn
  /\ b_texts' = input_texts
  /\ op' = "batch"

----------------------------------------------------------------------------
(* lstm_memory.py: LSTMEncoder, LSTMDecoder and MemoryAugmentedLSTM *)

\* Tensors are terms here: a named tensor of the caller, or the application of a
\* module to tensors. A term records which module produced it from what.
Tensor(name, k) == [fn |-> name, layer |-> k, args |-> <<>>]

\* torch.zeros(...) and torch.zeros_like(...)
Zeros == Tensor("zeros", 0)

\* h_new and c_new of "h_new, c_new = lstm_cell(layer_input, (h_layer, c_layer))"
\* for the cell self.lstm_cells[k] of the module owner
cell_h(owner, k, x, h, c) == [fn |-> owner \o ".lstm_cells.h_t", layer |-> k, args |-> <<x, h, c>>]

cell_c(owner, k, x, h, c) == [fn |-> owner \o ".lstm_cells.c_t", layer |-> k, args |-> <<x, h, c>>]

\* self.dropout(x): nn.Identity unless dropout > 0, and nn.Dropout only masks in
\* training mode
dropout(on, x) == IF on THEN [fn |-> "dropout", layer |-> 0, args |-> <<x>>] ELSE x

\* self.output_projection(x)
output_projection(x) == [fn |-> "output_projection", layer |-> 0, args |-> <<x>>]

\* self.memory_fusion(torch.cat([a, b, c], dim=-1))
memory_fusion(a, b, c) == [fn |-> "memory_fusion", layer |-> 0, args |-> <<a, b, c>>]

\* "for layer_idx, lstm_cell in enumerate(self.lstm_cells)" from layer k on (k is
\* 1-based here): h[layer_idx] = h_new and c[layer_idx] = c_new write into the
\* tensors h and c themselves
RECURSIVE run_layers(_, _, _, _, _, _, _)
run_layers(owner, k, h, c, layer_input, num_layers, drop) ==
  IF k > num_layers THEN [h |-> h, c |-> c, layer_input |-> layer_input]
  ELSE LET h_new == cell_h(owner, k - 1, layer_input, h[k], c[k])
           c_new == cell_c(owner, k - 1, layer_input, h[k], c[k])
       IN run_layers(owner, k + 1, [h EXCEPT ![k] = h_new], [c EXCEPT ![k] = c_new],
                     dropout(drop, h_new), num_layers, drop)

\* LSTMEncoder.forward, "for t in range(seq_len)" from step t on (1-based)
RECURSIVE encoder_steps(_, _, _, _, _, _, _)
encoder_steps(t, input_sequence, h, c, outputs, num_layers, drop) ==
  IF t > Len(input_sequence) THEN [h |-> h, c |-> c, outputs |-> outputs]
  ELSE LET r == run_layers("encoder", 1, h, c, input_sequence[t], num_layers, drop)
       IN encoder_steps(t + 1, input_sequence, r.h, r.c, Append(outputs, r.layer_input),
                        num_layers, drop)

\* LSTMEncoder.forward on the tensors h, c: torch.stack raises on an empty list
encoder_forward(input_sequence, h, c, num_layers, drop) ==
  LET r == encoder_steps(1, input_sequence, h, c, <<>>, num_layers, drop)
  IN [raised |-> r.outputs = <<>>, output_sequence |-> r.outputs, h |-> r.h, c |-> r.c]

NextDecoderInput_projected(layer_input, output) == output

\* "decoder_input = layer_input" at the end of a decoder step
NextDecoderInput(layer_input, output) == layer_input

\* LSTMDecoder.forward, "for t in range(max_length)" from step t on (0-based);
\* steps records, per step, the input and the tensors before and after it
RECURSIVE decoder_steps(_, _, _, _, _, _, _, _, _)
decoder_steps(t, max_length, h, c, decoder_input, outputs, steps, num_layers, drop) ==
  IF t >= max_length THEN [h |-> h, c |-> c, outputs |-> outputs, steps |-> steps]
  ELSE LET r == run_layers("decoder", 1, h, c, decoder_input, num_layers, drop)
           output == output_projection(r.layer_input)
           step == [index |-> t, input |-> decoder_input, before |-> <<h, c>>,
                    after |-> <<r.h, r.c>>, output |-> output]
       IN decoder_steps(t + 1, max_length, r.h, r.c, NextDecoderInput(r.layer_input, output),
                        Append(outputs, output), Append(steps, step), num_layers, drop)

\* LSTMDecoder.forward on the tensors h, c; input_tensor is None or Some(tensor)
decoder_forward(h, c, max_length, input_tensor, num_layers, drop) ==
  LET decoder_input == IF input_tensor = None THEN Zeros ELSE input_tensor[1]
      r == decoder_steps(0, max_length, h, c, decoder_input, <<>>, <<>>, num_layers, drop)
  IN [raised |-> r.outputs = <<>>, outputs |-> r.outputs, steps |-> r.steps, h |-> r.h, c |-> r.c]

\* the memory_augmented tensor of MemoryAugmentedLSTM.forward
MemoryAugmented(final_encoded, stm_context, ltm_context) ==
  IF stm_context # None /\ ltm_context # None
    THEN memory_fusion(final_encoded, stm_context[1], ltm_context[1])
  ELSE IF stm_context # None THEN memory_fusion(final_encoded, stm_context[1], Zeros)
  ELSE IF ltm_context # None THEN memory_fusion(final_encoded, Zeros, ltm_context[1])
  ELSE final_encoded

\* the layers' tensors of a fresh torch.zeros(num_layers, batch_size, hidden_size)
RECURSIVE ZeroState(_)
ZeroState(num_layers) ==
  IF num_layers = 0 THEN <<>> ELSE Append(ZeroState(num_layers - 1), Zeros)

\* the layers' tensors of a caller's tensor called name
RECURSIVE LayerTensors(_, _)
LayerTensors(name, num_layers) ==
  IF num_layers = 0 THEN <<>>
  ELSE Append(LayerTensors(name, num_layers - 1), Tensor(name, num_layers - 1))

\* the input sequence x_0 .. x_(n-1)
InputSequence(n) == LayerTensors("x", n)

SeqInit ==
  /\ sq_layers \in {1, 2}
  /\ sq_drop \in BOOLEAN
  /\ sq_fn = "none"
  /\ sq_args = <<>>
  /\ sq_h0 = <<>>
  /\ sq_c0 = <<>>
  /\ sq_h = LayerTensors("h", sq_layers)
  /\ sq_c = LayerTensors("c", sq_layers)
  /\ sq_steps = <<>>
  /\ sq_enc_final = <<>>
  /\ sq_ret = <<>>
  /\ sq_raised = FALSE

SeqIdle ==
  /\ sq_layers = 1
  /\ sq_drop = FALSE
  /\ sq_fn = "none"
  /\ sq_args = <<>>
  /\ sq_h0 = <<>>
  /\ sq_c0 = <<>>
  /\ sq_h = <<Tensor("h", 0)>>
  /\ sq_c = <<Tensor("c", 0)>>
  /\ sq_steps = <<>>
  /\ sq_enc_final = <<>>
  /\ sq_ret = <<>>
  /\ sq_raised = FALSE

\* decoder(hidden, max_length, input_tensor) with the caller's (h, c) as hidden:
\* "h, c = hidden" names the caller's tensors, and the loop writes into them
DecoderForward(max_length, input_tensor) ==
  /\ op = "init"
  /\ LET r == decoder_forward(sq_h, sq_c, max_length, input_tensor, sq_layers, sq_drop)
     IN /\ sq_h' = r.h
        /\ sq_c' = r.c
        /\ sq_steps' = r.steps
        /\ sq_raised' = r.raised
        /\ sq_ret' = IF r.raised THEN <<>> ELSE r.outputs
  /\ sq_fn' = "LSTMDecoder.forward"
  /\ sq_args' = <<max_length, input_tensor>>
  /\ sq_h0' = sq_h
  /\ sq_c0' = sq_c
  /\ op' = "forward"
  /\ UNCHANGED <<sq_layers, sq_drop, sq_enc_final>>

\* encoder(input_sequence, hidden): hidden is the caller's (h, c) or None
EncoderForward(input_sequence, hidden_given) ==
  /\ op = "init"
  /\ LET h == IF hidden_given THEN sq_h ELSE ZeroState(sq_layers)
         c == IF hidden_given THEN sq_c ELSE ZeroState(sq_layers)
         r == encoder_forward(input_sequence, h, c, sq_layers, sq_drop)
     IN /\ sq_h' = IF hidden_given THEN r.h ELSE sq_h
        /\ sq_c' = IF hidden_given THEN r.c ELSE sq_c
        /\ sq_raised' = r.raised
        /\ sq_ret' = IF r.raised THEN <<>>
                     ELSE [output_sequence |-> r.output_sequence, final_hidden |-> <<r.h, r.c>>]
  /\ sq_fn' = "LSTMEncoder.forward"
  /\ sq_args' = <<input_sequence, hidden_given>>
  /\ sq_h0' = sq_h
  /\ sq_c0' = sq_c
  /\ op' = "forward"
  /\ UNCHANGED <<sq_layers, sq_drop, sq_steps, sq_enc_final>>

\* MemoryAugmentedLSTM.forward(input_sequence, stm_context, ltm_context, hidden):
\* encoder_hidden is the pair of tensors the encoder wrote and returned, the
\* decoder is handed that same pair, and 'hidden' of the result is that pair
MemoryAugmentedForward(input_sequence, stm_context, ltm_context, hidden_given) ==
  /\ op = "init"
  /\ LET h == IF hidden_given THEN sq_h ELSE ZeroState(sq_layers)
         c == IF hidden_given THEN sq_c ELSE ZeroState(sq_layers)
         e == encoder_forward(input_sequence, h, c, sq_layers, sq_drop)
         final_encoded == e.output_sequence[Len(e.output_sequence)]
         memory_augmented == MemoryAugmented(final_encoded, stm_context, ltm_context)
         d == decoder_forward(e.h, e.c, 1, Some(memory_augmented), sq_layers, sq_drop)
     IN IF e.raised
          THEN /\ sq_h' = IF hidden_given THEN e.h ELSE sq_h
               /\ sq_c' = IF hidden_given THEN e.c ELSE sq_c
               /\ sq_raised' = TRUE
               /\ sq_ret' = <<>>
               /\ sq_steps' = <<>>
               /\ sq_enc_final' = <<>>
          ELSE /\ sq_h' = IF hidden_given THEN d.h ELSE sq_h
               /\ sq_c' = IF hidden_given THEN d.c ELSE sq_c
               /\ sq_raised' = FALSE
               /\ sq_ret' = [output |-> d.outputs[1], hidden |-> <<d.h, d.c>>,
                             context |-> memory_augmented]
               /\ sq_steps' = d.steps
               /\ sq_enc_final' = <<e.h, e.c>>
  /\ sq_fn' = "MemoryAugmentedLSTM.forward"
  /\ sq_args' = <<input_sequence, stm_context, ltm_context, hidden_given>>
  /\ sq_h0' = sq_h
  /\ sq_c0' = sq_c
  /\ op' = "forward"
  /\ UNCHANGED <<sq_layers, sq_drop>>

----------------------------------------------------------------------------
(* Specifications *)

vars == <<op, trainVars, truncVars, encVars, evalVars, memVars, ctxVars, replayVars,
          predictVars, datasetVars, sumVars, stmVars, cellVars,
          batchVars,
          seqVars,
          stmlogVars>>

\* every component outside G is in its state after construction and is not used
IdleExcept(G) ==
  /\ IF "train" \in G THEN TRUE ELSE TrainIdle
  /\ IF "trunc" \in G THEN TRUE ELSE TruncIdle
  /\ IF "enc" \in G THEN TRUE ELSE EncIdle
  /\ IF "eval" \in G THEN TRUE ELSE EvalIdle
  /\ IF "mem" \in G THEN TRUE ELSE MemIdle
  /\ IF "ctx" \in G THEN TRUE ELSE CtxIdle
  /\ IF "replay" \in G THEN TRUE ELSE ReplayIdle
  /\ IF "predict" \in G THEN TRUE ELSE PredictIdle
  /\ IF "dataset" \in G THEN TRUE ELSE DatasetIdle
  /\ IF "sum" \in G THEN TRUE ELSE SumIdle
  /\ IF "stm" \in G THEN TRUE ELSE StmIdle
  /\ IF "cell" \in G THEN TRUE ELSE CellIdle
  /\ IF "batch" \in G THEN TRUE ELSE BatchIdle
  /\ IF "seq" \in G THEN TRUE ELSE SeqIdle
  /\ IF "stmlog" \in G THEN TRUE ELSE StmLogIdle

\* a call on the components of G leaves every other component alone
Frame(G) ==
  /\ IF "train" \in G THEN TRUE ELSE UNCHANGED trainVars
  /\ IF "trunc" \in G THEN TRUE ELSE UNCHANGED truncVars
  /\ IF "enc" \in G THEN TRUE ELSE UNCHANGED encVars
  /\ IF "eval" \in G THEN TRUE ELSE UNCHANGED evalVars
  /\ IF "mem" \in G THEN TRUE ELSE UNCHANGED memVars
  /\ IF "ctx" \in G THEN TRUE ELSE UNCHANGED ctxVars
  /\ IF "replay" \in G THEN TRUE ELSE UNCHANGED replayVars
  /\ IF "predict" \in G THEN TRUE ELSE UNCHANGED predictVars
  /\ IF "dataset" \in G THEN TRUE ELSE UNCHANGED datasetVars
  /\ IF "sum" \in G THEN TRUE ELSE UNCHANGED sumVars
  /\ IF "stm" \in G THEN TRUE ELSE UNCHANGED stmVars
  /\ IF "cell" \in G THEN TRUE ELSE UNCHANGED cellVars
  /\ IF "batch" \in G THEN TRUE ELSE UNCHANGED batchVars
  /\ IF "seq" \in G THEN TRUE ELSE UNCHANGED seqVars
  /\ IF "stmlog" \in G THEN TRUE ELSE UNCHANGED stmlogVars

\* train_logs_lstm.main: the epoch loop
InitTrain ==
  op = "init" /\ TrainInit /\ IdleExcept({"train"})

NextTrain ==
  (\E a \in ValAccs : TrainEpoch(a)) /\ Frame({"train"})

SpecTrain == InitTrain /\ [][NextTrain]_vars

\* TokenLimitController.truncate on bounded texts and budgets
InitTrunc ==
  op = "init" /\ TruncInit /\ IdleExcept({"trunc"})

NextTrunc == Truncate /\ Frame({"trunc"})

SpecTrunc == InitTrunc /\ [][NextTrunc]_vars

\* encode_text then decode_ids on bounded texts
InitEnc ==
  op = "init" /\ EncInit /\ IdleExcept({"enc"})

NextEnc == (Encode \/ Decode) /\ Frame({"enc"})

SpecEnc == InitEnc /\ [][NextEnc]_vars

\* evaluate_level_prediction on bounded logs, predict_fn returning any of PredTexts
InitEval ==
  op = "init" /\ EvalInit /\ IdleExcept({"eval"})

NextEval ==
  ((\E pred_text \in PredTexts : EvalRow(pred_text)) \/ EvalReturn) /\ Frame({"eval"})

SpecEval == InitEval /\ [][NextEval]_vars

\* one run of one of the three evaluation loops: evaluate_level_prediction,
\* evaluate_model or evaluate_task_model
InitHarness ==
  /\ op = "init"
  /\ \/ EvalInit /\ ReplayIdle
     \/ EvalIdle /\ ReplayInit
  /\ IdleExcept({"eval", "replay"})

NextHarness ==
  \/ (\E pred_text \in PredTexts : EvalRow(pred_text)) /\ Frame({"eval"})
  \/ EvalReturn /\ Frame({"eval"})
  \/ (\E pred_a \in QAPreds : EvaluateModelRow(pred_a)) /\ Frame({"replay"})
  \/ (\E pred \in TaskPreds : EvaluateTaskRow(pred)) /\ Frame({"replay"})
  \/ ReplayReturn /\ Frame({"replay"})

SpecHarness == InitHarness /\ [][NextHarness]_vars

\* the predict functions of one harness module, called in any order
InitPredict ==
  op = "init" /\ PredictInit /\ IdleExcept({"predict"})

NextPredict ==
  (\E v \in Variants, pred_id \in PredIds, prepare_raises \in BOOLEAN :
      Predict(v, pred_id, prepare_raises)) /\ Frame({"predict"})

SpecPredict == InitPredict /\ [][NextPredict]_vars

\* training runs that share one cache directory and model_type: each builds its
\* dataset from the rows and history_size of that run, then reads items
InitDataset ==
  op = "init" /\ DatasetInit /\ IdleExcept({"dataset"})

NextDataset ==
  \/ (\E rows \in SeqsUpTo(DsRows, MaxRows), hsize \in 0..MaxHistSize :
        LogsLevelDataset(rows, hsize)) /\ Frame({"dataset"})
  \/ (\E idx \in 0..(MaxRows - 1) : GetItem(idx)) /\ Frame({"dataset"})

SpecDataset == InitDataset /\ [][NextDataset]_vars

\* one call of summarize on a SummarizationLayer, over bounded inputs
InitSum ==
  op = "init" /\ SumInit /\ IdleExcept({"sum"})

NextSum ==
  op = "init" /\
  (\E text \in SumTexts, max_length \in {None, Some(0), Some(1), Some(2)},
      hf \in SumOutcomes \cup {[kind |-> "none"]} :
        Summarize(text, max_length, hf)) /\ Frame({"sum"})

SpecSum == InitSum /\ [][NextSum]_vars

\* one ShortTermMemory under add_message, clear and get_summary
InitStm ==
  op = "init" /\ StmInit /\ IdleExcept({"stm"})

NextStm ==
  \/ (\E role \in StmRoles, content \in StmContents,
         hf \in SumOutcomes \cup {[kind |-> "none"]} :
           AddMessage(role, content, hf)) /\ Frame({"stm"})
  \/ Clear /\ Frame({"stm"})
  \/ GetSummary /\ Frame({"stm"})

SpecStm == InitStm /\ [][NextStm]_vars

\* one call of LSTMCell.forward over bounded parameters and arguments
InitCell ==
  op = "init" /\ CellInit /\ IdleExcept({"cell"})

NextCell == Forward /\ Frame({"cell"})

SpecCell == InitCell /\ [][NextCell]_vars

\* a training run's dataset and an evaluation run over the same rows with the
\* same history_size
InitTrainEval ==
  op = "init" /\ EvalInit /\ DatasetInit /\ IdleExcept({"eval", "dataset"})

NextTrainEval ==
  \/ LogsLevelDataset(logs, history_size) /\ Frame({"eval", "dataset"})
        /\ UNCHANGED evalVars
  \/ (\E idx \in 0..(MaxRows - 1) : GetItem(idx)) /\ Frame({"eval", "dataset"})
        /\ UNCHANGED evalVars
  \/ (\E pred_text \in {"", "12"} : EvalRow(pred_text)) /\ Frame({"eval", "dataset"})
        /\ UNCHANGED datasetVars
  \/ EvalReturn /\ Frame({"eval", "dataset"}) /\ UNCHANGED datasetVars

SpecTrainEval == InitTrainEval /\ [][NextTrainEval]_vars

\* a Full-Memory model's semantic store under add, ingest_history, search and
\* build_memory_context
InitMem ==
  op = "init" /\ MemInit /\ CtxIdle /\ IdleExcept({"mem", "ctx"})

NextMem ==
  \/ (\E text \in MemTexts : Add(text))
       /\ Frame({"mem", "ctx"})
  \/ (\E history \in SeqsUpTo(MemTexts, MaxHist) : IngestHistory(history))
       /\ Frame({"mem", "ctx"})
  \/ (\E query \in MemTexts, top_k \in 0..MaxTopK : Search(query, top_k))
       /\ Frame({"mem", "ctx"})
  \/ (\E history \in {<<>>, <<"loves docker">>}, current \in {"containers", ""},
         hf \in HFOutcomes, ner \in NEROutcomes :
           BuildMemoryContext(history, current, hf, ner))
       /\ Frame({"mem", "ctx"})

SpecMem == InitMem /\ [][NextMem]_vars

\* build_memory_context of both variants, the Full-Memory store filled by
\* ingest_history beforehand
InitCtx ==
  /\ op = "init"
  /\ CtxInit
  /\ MemIdle
  /\ IdleExcept({"mem", "ctx"})

NextCtx ==
  \/ /\ op # "build_memory_context"
     /\ variant = "full_memory"
     /\ \E history \in SeqsUpTo({"loves docker", "python expert"}, MaxHist) :
          IngestHistory(history)
     /\ Frame({"mem", "ctx"})
  \/ /\ op # "build_memory_context"
     /\ \E history \in CtxHistories, current \in {"containers", "  "},
           hf \in HFOutcomes, ner \in NEROutcomes :
             BuildMemoryContext(history, current, hf, ner)
     /\ Frame({"mem", "ctx"})

SpecCtx == InitCtx /\ [][NextCtx]_vars

\* The harnesses and the Full-Memory variant: the model is constructed with an
\* empty semantic store (model_4_full_memory.py:19), and every later use of it
\* by eval_logs_memory.py (_predict_with_lstm) and train_logs_lstm.py
\* (LogsLevelDataset) is a call of prepare_input_text; no harness calls
\* ingest_history or semantic_mem.add. A call leaves the store as it is, so the
\* calls of a run all start from the state the first one starts from; one call
\* is followed.
InitFullMemHarness ==
  /\ op = "init"
  /\ CtxInit
  /\ MemIdle
  /\ IdleExcept({"mem", "ctx"})

NextFullMemHarness ==
  op = "init" /\
  (\E history \in CtxHistories, question \in {"containers", "loves docker"},
      hf \in HFOutcomes, ner \in NEROutcomes :
        PrepareInputText(history, question, hf, ner))
    /\ Frame({"mem", "ctx"})

SpecFullMemHarness == InitFullMemHarness /\ [][NextFullMemHarness]_vars

\* the batches of a training epoch and of an evaluation
InitBatch ==
  op = "init" /\ BatchInit /\ IdleExcept({"batch"})

NextBatch ==
  (\E fn \in BatchFns, input_texts \in SeqsUpTo(BatchTexts, MaxBatch) :
      HandleBatch(fn, input_texts))
    /\ op = "init"
    /\ Frame({"batch"})

SpecBatch == InitBatch /\ [][NextBatch]_vars

\* one forward call of the encoder, of the decoder or of the whole model
InitSeq ==
  op = "init" /\ SeqInit /\ IdleExcept({"seq"})

NextSeq ==
  \/ (\E max_length \in 0..MaxSteps, input_tensor \in {None, Some(Tensor("input", 0))} :
        DecoderForward(max_length, input_tensor))
       /\ Frame({"seq"})
  \/ (\E n \in 0..MaxSteps, hidden_given \in BOOLEAN :
        EncoderForward(InputSequence(n), hidden_given))
       /\ Frame({"seq"})
  \/ (\E n \in 0..MaxSteps, hidden_given \in BOOLEAN,
         stm_context \in {None, Some(Tensor("stm", 0))},
         ltm_context \in {None, Some(Tensor("ltm", 0))} :
        MemoryAugmentedForward(InputSequence(n), stm_context, ltm_context, hidden_given))
       /\ Frame({"seq"})

SpecSeq == InitSeq /\ [][NextSeq]_vars

\* the messages of one ShortTermMemory under add_message and clear
InitStmLog ==
  op = "init" /\ StmLogInit /\ IdleExcept({"stm", "stmlog"})

NextStmLog ==
  \/ (\E role \in StmRoles, content \in {"hi", " \n", "ok"} : LoggedAddMessage(role, content))
       /\ Frame({"stm", "stmlog"})
  \/ LoggedClear /\ Frame({"stm", "stmlog"})

SpecStmLog == InitStmLog /\ [][NextStmLog]_vars

----------------------------------------------------------------------------
(* Checkpoint policy *)

\* max(a_0..a_{i-1}) for the last finished epoch i, the maximum over no epochs being 0.0
PrevBest == Max({0} \cup {accs[j] : j \in 1..(Len(accs) - 1)})

\* C1: the checkpoint is written at the end of epoch i iff a_i >= max(a_0..a_{i-1})
\* (0.0 when there is no earlier epoch), and afterwards best_val_acc = max(a_0..a_i).
C1_CheckpointIffAtLeastBest ==
  epoch >= 1 =>
    /\ saved <=> (accs[epoch] >= PrevBest)
    /\ best_val_acc = Max({0} \cup {accs[j] : j \in 1..Len(accs)})

C1_Witness ==
  /\ epoch >= 3
  /\ saved
  /\ accs[epoch] > 0
  /\ accs[epoch] = PrevBest
  /\ \E j \in 1..(epoch - 1) : accs[j] < PrevBest

\* C2 as stated: the checkpoint is overwritten only on a strictly better
\* validation accuracy than that of every earlier epoch; a tie does not overwrite.
C2_OverwriteOnlyStrictlyBetter ==
  (epoch >= 2 /\ ckpt = epoch) => accs[epoch] > PrevBest

\* C2 amended: the checkpoint holds the model of epoch i exactly when a_i is at
\* least the best earlier accuracy; an epoch that ties the previous best overwrites it.
C2_OverwriteOnAtLeastBest ==
  epoch >= 1 =>
    /\ (ckpt = epoch) => (val_acc >= PrevBest)
    /\ (val_acc = PrevBest) => (ckpt = epoch)
    /\ (val_acc < PrevBest) => (ckpt < epoch /\ ckpt >= 1 /\ accs[ckpt] = PrevBest)

C2_Witness ==
  /\ epoch >= 2
  /\ val_acc = PrevBest
  /\ val_acc = accs[epoch - 1]
  /\ ckpt = epoch

----------------------------------------------------------------------------
(* Token budget of truncate *)

\* C4: in the heuristic path truncate(text, max_tokens) returns r with
\* len(r)//4 <= max_tokens, returns text unchanged when len(text)//4 <= max_tokens,
\* and returns "" for the empty text.
C4_TruncateWithinBudget ==
  op = "truncate" =>
    /\ Len(t_out) \div 4 <= t_max
    /\ (Len(t_text) \div 4 <= t_max) => (t_out = t_text)
    /\ (t_text = "") => (t_out = "")

C4_Witness ==
  /\ op = "truncate"
  /\ t_max = 2
  /\ Len(t_text) >= 12
  /\ Len(t_out) = 8
  /\ CharAt(t_out, 7) = "."

----------------------------------------------------------------------------
(* Tokenizer round trip *)

\* C8 as stated: for every s with len(s) < MAX_SEQ_LEN made of printable ASCII
\* characters only, decode_ids(encode_text(s)) == s.
C8_RoundTripAllShortPrintable ==
  (op = "decode" /\ Len(e_text) < MAX_SEQ_LEN /\ IsPrintable(e_text)) => e_dec = e_text

\* C8 amended: for every non-empty s with len(s) < MAX_SEQ_LEN made of printable
\* ASCII characters only, decode_ids(encode_text(s)) == s; the empty string
\* decodes to one space.
C8_RoundTripNonEmptyPrintable ==
  (op = "decode" /\ Len(e_text) < MAX_SEQ_LEN /\ IsPrintable(e_text)) =>
    /\ (e_text # "") => (e_dec = e_text)
    /\ (e_text = "") => (e_dec = " ")

C8_Witness ==
  /\ op = "decode"
  /\ IsPrintable(e_text)
  /\ Len(e_text) > 128
  /\ Len(e_text) < MAX_SEQ_LEN
  /\ CharAt(e_text, 0) = " "
  /\ e_dec = e_text

----------------------------------------------------------------------------
(* Scoring of the logs evaluation harness *)

\* C9: with allow_off_by_one=False every row increments total by exactly one and
\* increments correct by one iff the first integer extracted from the prediction
\* text equals the row's true level; correct never exceeds total.
C9_ExactMatchCounting ==
  /\ [][(op' = "eval_row" /\ ~allow_off_by_one) =>
          /\ total' = total + 1
          /\ correct' \in {correct, correct + 1}
          /\ (correct' = correct + 1) <=>
               (extract_first_int(ev_pred') = Some(logs[ev_i'].level))]_vars
  /\ [](~allow_off_by_one => correct <= total)

C9_Witness ==
  /\ op = "eval_row"
  /\ ~allow_off_by_one
  /\ ev_i = 3
  /\ total = 3
  /\ correct = 2
  /\ ev_pred = "x2-13"
  /\ logs[ev_i].level = 12

\* C10: a row whose prediction text holds no integer is counted incorrect
\* (total + 1, correct unchanged), its message is still appended to the running
\* history and the loop goes on to the next row; the returned accuracy is
\* correct/total over all rows, 0.0 for no rows.
C10_NoIntegerCountsIncorrect ==
  /\ [][(op' = "eval_row" /\ extract_first_int(ev_pred') = None) =>
          /\ total' = total + 1
          /\ correct' = correct
          /\ history_messages' = Append(history_messages, logs[ev_i'].message)
          /\ ev_pc' = "loop"]_vars
  /\ [](total = ev_i /\ Len(history_messages) = ev_i)
  /\ [](op = "eval_return" =>
          /\ total = Len(logs)
          /\ ev_acc = IF logs = <<>> THEN <<0, 1>> ELSE <<correct, Len(logs)>>)

C10_Witness ==
  /\ op = "eval_return"
  /\ Len(logs) = 3
  /\ ev_pred = "no idea"
  /\ ev_acc = <<1, 3>>

----------------------------------------------------------------------------
(* Local semantic memory *)

\* the similarity of entry i to the last query
EntrySim(i) == Sim(hashvec[m_query], entries[i].embedding)

\* p lists distinct entries in ranking order: non-increasing similarity, equal
\* similarities in insertion order, and no entry outside p ranks before p's last
IsRanking(p) ==
  /\ \A i \in 1..Len(p) : p[i] \in 1..Len(entries)
  /\ \A i \in 1..(Len(p) - 1) :
       \/ EntrySim(p[i]) > EntrySim(p[i + 1])
       \/ EntrySim(p[i]) = EntrySim(p[i + 1]) /\ p[i] < p[i + 1]
  /\ \A j \in 1..Len(entries) :
       (\A i \in 1..Len(p) : p[i] # j) =>
         \A i \in 1..Len(p) :
           \/ EntrySim(j) < EntrySim(p[i])
           \/ EntrySim(j) = EntrySim(p[i]) /\ j > p[i]

\* C6: search returns exactly min(top_k, n) texts, ordered by non-increasing
\* cosine similarity to the query, equal similarities in insertion order; a blank
\* query or an empty store gives the empty list.
C6_SearchRanksTopK ==
  op = "search" =>
    IF IsBlank(m_query) \/ entries = <<>> THEN m_result = <<>>
    ELSE /\ Len(m_result) = Min2(m_top_k, Len(entries))
         /\ \E p \in [1..Len(m_result) -> 1..Len(entries)] :
              /\ IsRanking(p)
              /\ \A i \in 1..Len(m_result) : m_result[i] = entries[p[i]].text

C6_Witness ==
  /\ op = "search"
  /\ Len(entries) = 3
  /\ m_top_k = 2
  /\ Len(m_result) = 2
  /\ entries[1].text # entries[2].text
  /\ EntrySim(1) = EntrySim(2)
  /\ EntrySim(3) > EntrySim(1)
  /\ m_result = <<entries[3].text, entries[1].text>>

IsPrefixOf(a, b) == Len(a) <= Len(b) /\ SubSeq(b, 1, Len(a)) = a

\* C7: the entry list changes only through add / ingest_history, which append
\* one entry per non-blank text and never remove or reorder entries; search and
\* FullMemoryLSTM.build_memory_context leave it unchanged, so a repeated search
\* (same query and top_k, no add in between) returns the same ordered list.
C7_EntriesAppendOnly ==
  /\ [][/\ (entries' # entries) => (op' \in {"add", "ingest_history"})
        /\ IsPrefixOf(entries, entries')
        /\ (op' \in {"search", "build_memory_context"}) => (entries' = entries)
        /\ (op' = "add") =>
             (Len(entries') = Len(entries) + (IF entries' = entries THEN 0 ELSE 1))
        /\ (op' = "search" /\ op = "search" /\ m_query' = m_query /\ m_top_k' = m_top_k)
             => (m_result' = m_result)]_vars
  /\ [](\A i \in 1..Len(entries) : ~IsBlank(entries[i].text))

C7_Witness ==
  /\ op = "search"
  /\ Len(entries) = 3
  /\ m_top_k = 3
  /\ Len(m_result) = 3
  /\ m_result[1] # m_result[2]

----------------------------------------------------------------------------
(* Memory context of the variants *)

C5_EmptyHistoryMinimalContext ==
  (op = "build_memory_context" /\ c_history = <<>>) =>
    /\ ~c_raised
    /\ c_summary = ""
    /\ ~Contains(c_context, "=== STM Summary ===")
    /\ ~Contains(c_context, "=== Entities ===")
    /\ ~Contains(c_context, "Skills: ")
    /\ (variant = "sum_tok_ner") => (c_context = "")
    /\ (variant = "full_memory" /\ entries = <<>>) => (c_context = "")
    /\ (variant = "full_memory") =>
         \/ c_context = ""
         \/ \E k \in 1..Min2(3, Len(entries)) : \E p \in [1..k -> 1..Len(entries)] :
              c_context = "=== Semantic Memories ===\n"
                            \o Join([i \in 1..k |-> entries[p[i]].text], "\n\n")

C5_Witness ==
  /\ op = "build_memory_context"
  /\ c_history = <<>>
  /\ variant = "full_memory"
  /\ Len(entries) = 2
  /\ c_current = "containers"
  /\ Len(c_context) > 30

----------------------------------------------------------------------------
(* History windows of the evaluation loops *)

\* the last k elements of lst, for 0 <= k <= Len(lst)
SuffixK(lst, k) == SubSeq(lst, Len(lst) - k + 1, Len(lst))

IsSuffixOf(a, b) == Len(a) <= Len(b) /\ SuffixK(b, Len(a)) = a

\* the history entries of the rows before the row processed last
PriorLogEntries == [j \in 1..(ev_i - 1) |-> logs[j].message]

PriorReplayEntries ==
  [j \in 1..(q_i - 1) |->
     IF q_kind = "qa" THEN QAEntry(q_data[j].question, q_data[j].answer)
     ELSE TaskEntry(q_data[j].user_id, q_data[j].request, q_data[j].task_summary)]

\* C11: for every history_size >= 0 and every row, the history handed to
\* predict_fn holds at most history_size entries, namely the entries of the most
\* recent prior rows in chronological order.
C11_HistoryAtMostHistorySize ==
  /\ op = "eval_row" =>
       /\ Len(ev_history) <= history_size
       /\ ev_history = SuffixK(PriorLogEntries, Min2(history_size, Len(PriorLogEntries)))
  /\ op \in {"evaluate_model_row", "evaluate_task_row"} =>
       /\ Len(q_history) <= q_history_size
       /\ q_history = SuffixK(PriorReplayEntries, Min2(q_history_size, Len(PriorReplayEntries)))

\* C20: in the three loops the entry of row i is appended only after predict_fn
\* returned for row i: the history handed over for row i is a suffix of the
\* entries of the rows before i, and after the iteration the running history is
\* exactly the entries of the rows up to i.
C20_HistoryExcludesCurrentRow ==
  /\ op = "eval_row" =>
       /\ IsSuffixOf(ev_history, PriorLogEntries)
       /\ history_messages = Append(PriorLogEntries, logs[ev_i].message)
  /\ op \in {"evaluate_model_row", "evaluate_task_row"} =>
       /\ IsSuffixOf(q_history, PriorReplayEntries)
       /\ SubSeq(q_history_texts, 1, q_i - 1) = PriorReplayEntries
       /\ Len(q_history_texts) = q_i

C20_Witness ==
  /\ op = "evaluate_task_row"
  /\ q_i = 3
  /\ q_history_size = 2
  /\ q_data[3].task_id = 1
  /\ q_history = <<TaskEntry("u1", "I failed the quiz", "adjust the user's study plan"),
                   TaskEntry("u2", "skip week 2", "Skip a week")>>

----------------------------------------------------------------------------
(* Checkpoints at evaluation time *)

\* C12: initialisation in the logs evaluation harness never raises because of a
\* checkpoint: with a missing or an unloadable checkpoint file the variant is
\* still constructed with freshly initialised weights and used for prediction.
C12_CheckpointNeverFatal ==
  (op = "predict" /\ h_harness = "logs") =>
    /\ p_path # "init_raised"
    /\ ckpt_files[p_variant] \in {"missing", "malformed"} =>
         (p_path = "lstm" /\ p_weights = "fresh")

\* C13: in each of the three harnesses a variant whose checkpoint file exists
\* predicts with the loaded parameters, and a variant without a checkpoint file
\* still runs the forward/decode path, with randomly initialised weights.
C13_CheckpointLoadedWhenPresent ==
  op = "predict" =>
    /\ ckpt_files[p_variant] # "missing" => (p_path = "lstm" /\ p_weights = "loaded")
    /\ ckpt_files[p_variant] = "missing" => (p_path = "lstm" /\ p_weights = "fresh")

----------------------------------------------------------------------------
(* Cache of input texts *)

\* C14: once a run has constructed its LogsLevelDataset with a cache path, the
\* cached input list has exactly one entry per row of that run, entry i is what
\* prepare_input_text gives for row i's history and question, and the cache file
\* holds that list (it is computed and written when the file was absent).
C14_CacheAlignedWithRows ==
  ds_built =>
    /\ Len(ds_cached) = Len(ds_rows)
    /\ \A i \in 1..Len(ds_rows) :
         ds_cached[i] = prepare_input_text(ds_histories[i], Question(ds_rows[i].user_id))
    /\ cache_exists
    /\ cache_json = ds_cached

----------------------------------------------------------------------------
(* Summarizer fallback *)

\* the number of sentences the layer's fallback keeps in the last call
FallbackSentences ==
  IF s_layer = "research" THEN 5
  ELSE IF s_available THEN OrDefault(DefaultedMaxLength(s_text, s_max_length))
  ELSE OrDefault(s_max_length)

\* C15: summarize never raises; blank text gives ""; with the summarizer
\* unavailable, or raising in the call, a non-blank text gives the extractive
\* summary of that text.
C15_FallbackIsExtractiveSummaryOfText ==
  op = "summarize" =>
    /\ ~s_raised
    /\ IsBlank(s_text) => s_out = ""
    /\ (~IsBlank(s_text) /\ (~s_available \/ s_hf.kind = "raise")) =>
         s_out = extractive_summarize(s_text, FallbackSentences)

----------------------------------------------------------------------------
(* Failure of the NER pipeline during a call *)

\* the context build_memory_context returns for the summary of the last call when
\* extract_entities gives the bundle "entities"
ContextFor(entities) ==
  LET block == Join(EntityParts(entities), "\n")
      retrieved == search(entries, c_current, 3)
      retrieved_block == IF retrieved # <<>> THEN Join(retrieved, "\n\n") ELSE ""
  IN IF variant = "sum_tok_ner"
       THEN c_summary \o (IF block # "" THEN "\n\n" \o block ELSE "")
       ELSE Join(full_memory_blocks(c_summary, block, retrieved_block), "\n\n")

\* C16: when the NER pipeline is loaded and fails on the summary it is given,
\* build_memory_context does not raise and returns the context built from the
\* keyword-matching fallback's bundle.
C16_NerFailureFallsBack ==
  (op = "build_memory_context" /\ nlp_ok /\ c_ner_raise /\ ~IsBlank(c_summary)) =>
    /\ ~c_raised
    /\ c_context = ContextFor(ner_fallback(c_summary))

----------------------------------------------------------------------------
(* Extractive summary *)

\* the elements of a finite set of integers in increasing order
RECURSIVE Ascending(_)
Ascending(S) ==
  IF S = {} THEN <<>>
  ELSE LET m == CHOOSE x \in S : \A y \in S : x <= y
       IN <<m>> \o Ascending(S \ {m})

\* the maximal pieces of text without '.', '!' or '?', in order of appearance
Pieces(text) ==
  LET IsEnd(i) == CharAt(text, i) \in SentenceEnd
      starts == {i \in 0..(Len(text) - 1) : ~IsEnd(i) /\ (i = 0 \/ IsEnd(i - 1))}
      ends == {j \in 1..Len(text) : ~IsEnd(j - 1) /\ (j = Len(text) \/ IsEnd(j))}
      ss == Ascending(starts)
      ee == Ascending(ends)
  IN [k \in 1..Len(ss) |-> SubSeq(text, ss[k] + 1, ee[k])]

\* the non-empty sentences of text, each stripped
RECURSIVE NonEmptyStripped(_)
NonEmptyStripped(ps) ==
  IF ps = <<>> THEN <<>>
  ELSE LET rest == NonEmptyStripped(Tail(ps))
       IN IF IsBlank(Head(ps)) THEN rest ELSE <<Strip(Head(ps))>> \o rest

\* the first min(5, n) of the n non-empty sentences, joined by ". ", then "."
FirstFiveJoined(text) ==
  LET all == NonEmptyStripped(Pieces(text))
  IN Join(SubSeq(all, 1, Min2(5, Len(all))), ". ") \o "."

\* C17 as stated: with the summarizer unavailable, summarize of the research layer
\* returns, for every non-blank text, its first min(5, n) non-empty sentences
\* joined by ". " with one trailing ".".
C17_ExtractiveFirstFive ==
  (op = "summarize" /\ s_layer = "research" /\ ~s_available /\ ~IsBlank(s_text)) =>
    s_out = FirstFiveJoined(s_text)

\* C17 amended: the same for a text with at least one non-empty sentence; a
\* non-blank text without one (only '.', '!', '?' and whitespace) is returned
\* unchanged.
C17_ExtractiveFirstFiveOrUnchanged ==
  (op = "summarize" /\ s_layer = "research" /\ ~s_available /\ ~IsBlank(s_text)) =>
    s_out = IF NonEmptyStripped(Pieces(s_text)) = <<>> THEN s_text
            ELSE FirstFiveJoined(s_text)

C17_Witness ==
  /\ op = "summarize"
  /\ s_layer = "research"
  /\ ~s_available
  /\ s_text = "a. b. c. d. e. f."
  /\ s_out = "a. b. c. d. e."

----------------------------------------------------------------------------
(* Short-term memory summary *)

\* C18: whatever add_message and clear calls came before, the string get_summary()
\* returns has an estimated token count of at most max_tokens, and it is empty
\* whenever no messages are held.
C18_SummaryWithinBudget ==
  op = "get_summary" =>
    /\ ctrl_estimate_tokens(stm_tok_ok, stm_got) <= stm_budget
    /\ recent_messages = <<>> => stm_got = ""

----------------------------------------------------------------------------
(* LSTM cell equations *)

\* W_x x + W_h h + b for batch element r and hidden unit k of the call
PreActivation(W_x, W_h, b, r, k) ==
  SumProd(W_x[k], l_input[r], InputSize) + SumProd(W_h[k], l_h[r], HiddenSize) + b[k]

\* c' = f*c + i*g for batch element r and hidden unit k of the call
NewCell(r, k) ==
  LET i == Sigmoid(PreActivation(cell.W_ii, cell.W_hi, cell.b_i, r, k))
      f == Sigmoid(PreActivation(cell.W_if, cell.W_hf, cell.b_f, r, k))
      g == Tanh(PreActivation(cell.W_ig, cell.W_hg, cell.b_g, r, k))
  IN Plus(Mul(f, l_c[r][k]), Mul(i, g))

\* h' = o*tanh(c') for batch element r and hidden unit k of the call
NewHidden(r, k) ==
  LET o == Sigmoid(PreActivation(cell.W_io, cell.W_ho, cell.b_o, r, k))
  IN Mul(o, Tanh(NewCell(r, k)))

\* C19: forward returns, for every batch element and hidden unit, h' = o*tanh(c')
\* and c' = f*c + i*g with i, f, o the sigmoids and g the tanh of
\* W_x x + W_h h + b of their gate, and the call leaves the cell's parameters and
\* the caller's input_tensor, h and c as they were.
C19_ForwardIsLstmStep ==
  /\ [](op = "forward" =>
          /\ Len(l_out) = 2
          /\ Len(l_out[1]) = Len(l_input)
          /\ Len(l_out[2]) = Len(l_input)
          /\ \A r \in 1..Len(l_input) :
               /\ Len(l_out[1][r]) = HiddenSize
               /\ Len(l_out[2][r]) = HiddenSize
               /\ \A k \in 1..HiddenSize :
                    /\ l_out[1][r][k] = NewHidden(r, k)
                    /\ l_out[2][r][k] = NewCell(r, k))
  /\ [][op' = "forward" => UNCHANGED <<cell, l_input, l_h, l_c>>]_vars

C19_Witness ==
  /\ op = "forward"
  /\ Len(l_input) = 2
  /\ cell.b_i = <<1, 0>>
  /\ l_input[1] = <<2, 1>>
  /\ l_h[1] = <<0, 1>>
  /\ l_c[1] = <<2, -1>>
  /\ l_out[2][1][1] = Plus(Mul(Sigmoid(-1), 2), Mul(Sigmoid(5), Tanh(8)))

----------------------------------------------------------------------------
(* Training and evaluation inputs *)

\* C21: for the same rows and the same history_size, the (history, question) pair
\* the dataset yields for a row is the pair evaluate_level_prediction hands to
\* predict_fn for that row.
C21_TrainEvalSameInputs ==
  (ds_built /\ ev_i >= 1) =>
    LET item == DatasetItem(ds_rows, ds_histories, ev_i - 1)
    IN /\ item.history = ev_history
       /\ item.question = ev_question
       /\ (op = "getitem" /\ gi_idx = ev_i - 1) =>
            (~gi_raised /\ gi_history = ev_history /\ gi_question = ev_question)

C21_Witness ==
  /\ op = "getitem"
  /\ ds_built
  /\ history_size = 2
  /\ ev_i = 3
  /\ gi_idx = 2
  /\ Len(gi_history) = 2
  /\ gi_history = ev_history

----------------------------------------------------------------------------
(* Skill keywords *)

\* C22: whenever the text given to extract_entities contains keywords of the fixed
\* list (case-insensitively), they are in the 'skills' bucket, with the NLP
\* pipeline loaded or not: the context built from the bundle has the line
\* "Skills: ..." naming them.
C22_SkillKeywordsAlwaysBucketed ==
  (op = "build_memory_context" /\ ~c_raised /\ ~IsBlank(c_summary)) =>
    LET found == FoundKeywords(Lower(c_summary), 1)
    IN found # <<>> => Contains(c_context, "Skills: " \o Join(found, ", "))

----------------------------------------------------------------------------
(* Blocks of the Full-Memory context *)

\* the entity blocks the summary of the last call can give: the Skills, Roles
\* and Companies lines of a bundle extract_entities returns for it
PossibleEntityBlocks ==
  IF c_summary = "" THEN {""}
  ELSE {Join(EntityParts(extract_entities(c_summary, ner)), "\n") :
          ner \in {n \in NEROutcomes : ~n.raise}}

----------------------------------------------------------------------------
(* Semantic store of the Full-Memory variant in the harnesses *)

\* the texts held by the semantic store
StoredTexts == {entries[j].text : j \in DOMAIN entries}

\* C24: for the Full-Memory variant, every history the harnesses pass to
\* build_memory_context has been ingested into the semantic store before the
\* retrieval step of that call: each non-blank turn of the history is a stored
\* entry, so the retrieval has the prior turns to draw on.
C24_HistoryIngestedBeforeRetrieval ==
  (op = "build_memory_context" /\ variant = "full_memory") =>
    \A i \in DOMAIN c_history : ~IsBlank(c_history[i]) => c_history[i] \in StoredTexts

----------------------------------------------------------------------------
(* Padded batches *)

\* C25: in train_one_epoch and evaluate_level_accuracy every row of a batch has
\* the batch's maximum length; its first seq_len positions hold the element's
\* own encoded ids, the positions behind them hold the id of the space, and the
\* logits taken for the element are those at its own position seq_len - 1,
\* which is never a padded position.
C25_PaddingAndLastUnpaddedLogits ==
  op = "batch" =>
    LET lens == {Len(encode_text(b_texts[k])) : k \in DOMAIN b_texts}
        max_len == CHOOSE m \in lens : \A l \in lens : l <= m
    IN /\ DOMAIN b_batch_ids = DOMAIN b_texts
       /\ \A i \in DOMAIN b_texts :
            LET e == encode_text(b_texts[i])
                seq_len == Len(e)
            IN /\ Len(b_batch_ids[i]) = max_len
               /\ SubSeq(b_batch_ids[i], 1, seq_len) = e
               /\ \A t \in (seq_len + 1)..max_len : b_batch_ids[i][t] = STOI(" ")
               /\ b_last[i] = [row |-> i - 1, step |-> seq_len - 1]
               /\ 0 <= seq_len - 1 /\ seq_len - 1 < seq_len

C25_Witness ==
  /\ op = "batch"
  /\ \E i, j \in DOMAIN b_texts :
       /\ b_texts[i] = ""
       /\ b_seq_lens[i] < Len(b_batch_ids[i])
       /\ b_seq_lens[j] = Len(b_batch_ids[j])
       /\ b_batch_ids[i] # b_batch_ids[j]
       /\ b_last[i].step = 0

----------------------------------------------------------------------------
(* Decoder steps *)

\* the input of layer k (1-based) in a decoder step: the step's input for the
\* first layer, the post-dropout h of the layer below otherwise
LayerInputOf(step, k) ==
  IF k = 1 THEN step.input ELSE dropout(sq_drop, step.after[1][k - 1])

----------------------------------------------------------------------------
(* Recent messages of the short-term memory *)

\* the last n elements of lst in their order, all of them when there are fewer
MostRecent(lst, n) ==
  IF n >= Len(lst) THEN lst ELSE SubSeq(lst, Len(lst) - n + 1, Len(lst))

\* C27: after any sequence of add_message calls recent_messages holds at most
\* max_messages entries, namely the most recent non-blank messages added since
\* the last clear, in arrival order; and add_message with empty or
\* whitespace-only content changes neither recent_messages nor the summary.
C27_RecentMessagesBounded ==
  /\ Len(recent_messages) <= stm_max_messages
  /\ recent_messages = MostRecent(stm_added, stm_max_messages)
  /\ (op = "add_message" /\ IsBlank(stm_content)) =>
        <<recent_messages, stm_summary>> = stm_before

----------------------------------------------------------------------------
(* Fallback of the short-term memory's summarizer *)

\* C28: with the summarization model unavailable or raising,
\* stm.SummarizationLayer.summarize(text, max_length = m) returns what the
\* research SummarizationLayer returns in the same situation, the first 5
\* non-empty sentences, so it keeps at most 5 sentences whatever m is.
C28_StmFallbackKeepsFiveSentences ==
  (op = "summarize" /\ s_layer = "stm" /\ ~IsBlank(s_text)
     /\ (~s_available \/ s_hf.kind = "raise")) =>
    /\ s_out = layer_summarize(s_available, s_text, s_hf)
    /\ Len(NonEmptyStripped(Pieces(s_out))) <= 5

----------------------------------------------------------------------------
(* The caller's hidden state *)

\* C29: LSTMEncoder.forward and LSTMDecoder.forward leave the hidden-state
\* tensors handed to them by the caller as they were; hence the 'hidden' value
\* MemoryAugmentedLSTM.forward returns is the encoder's final (h, c), not a
\* state altered by the decoder step that runs after encoding.
C29_CallerHiddenUnchanged ==
  op = "forward" =>
    /\ sq_fn \in {"LSTMEncoder.forward", "LSTMDecoder.forward"} =>
         (sq_h = sq_h0 /\ sq_c = sq_c0)
    /\ (sq_fn = "MemoryAugmentedLSTM.forward" /\ ~sq_raised) =>
         sq_ret.hidden = sq_enc_final

----------------------------------------------------------------------------
(* Predicted level of the logs harness *)

\* true levels outside 0..9
LevelsBeyondDigits == {-1, 10, 12, 71}

\* C30: the text an LSTM predict function of the logs harness returns has a
\* single digit 0..9 as its first integer: the decoded digit, or 1 when the
\* decoded character is no digit or the model is unavailable. Hence in
\* exact-match mode a row with a true level outside 0..9 is never counted
\* correct.
C30_PredictedLevelIsOneDigit ==
  (op = "predict" /\ h_harness = "logs" /\ ~p_raised) =>
    LET pred_level == extract_first_int(p_text)
    IN /\ pred_level # None
       /\ pred_level[1] \in 0..9
       /\ \E d \in 0..9 : p_text = "The current level is " \o CharAt(Digits, d) \o "."
       /\ p_path = "stub" => pred_level = Some(1)
       /\ \A level_true \in LevelsBeyondDigits : ~is_correct(pred_level, level_true, FALSE)

C30_Witness ==
  /\ op = "predict"
  /\ h_harness = "logs"
  /\ p_path = "lstm"
  /\ ~p_raised
  /\ p_text = "The current level is 7."

====
